---- MODULE Spec2Model ----
(***************************************************************************)
(* A model of the web-intel content-acquisition pipeline of roxabi-plugins *)
(* (plugins/web-intel/scripts): the SSRF gate, the retry engine, the       *)
(* size-bounded fetch, the shortener resolver, the dispatcher, the content *)
(* cache and the platform strategies' common fetch.                        *)
(*                                                                         *)
(* Each component has its own specification over the shared variables; a   *)
(* specification keeps the other components' variables at their idle       *)
(* values.                                                                 *)
(*   SpecSSRF   validate_url_ssrf / validate_url_ssrf_strict               *)
(*   Spec       retry_call and safe_fetch                                  *)
(*   SpecScrape resolve_redirects and scrape_content                       *)
(*   SpecKey    _normalize_url and _url_to_key                             *)
(*   SpecCache  ContentCache: get, set, invalidate, clear, cleanup         *)
(*   SpecCacheFaults ContentCache with crashes in set and damaged files    *)
(*   SpecFetcher BaseFetcher.fetch with the Twitter and YouTube strategies *)
(*   SpecLock   get_cache, reset_cache and the instance locks              *)
(*   SpecVault  vault_healthy                                              *)
(*   SpecFetchLock BaseFetcher.fetch and the cache lock, two threads       *)
(*   SpecDetect detect_url_type                                            *)
(*   SpecThread TwitterFetcher._fetch_impl on a reply                      *)
(*   SpecSanitize sanitize_content applied twice                           *)
(*   SpecReroute scrape_content over strategies that answer with markers   *)
(***************************************************************************)
EXTENDS Integers, Sequences, FiniteSets, TLC

VARIABLES
    \* ---- validate_url_ssrf (SpecSSRF)
    vUrl,        \* the URL handed to the validator
    vDns,        \* what socket.getaddrinfo answers for a DNS name
    vPc,         \* "input" | "validated"
    vResult,     \* validate_url_ssrf's (is_safe, error) as [ok, reason]
    vStrict,     \* validate_url_ssrf_strict: [raised, value]
    \* ---- retry_call / safe_fetch (Spec)
    caller,      \* "retry_call" (any operation) | "safe_fetch"
    pc,          \* "start" | "loop" | "direct" | "done"
    cfg,         \* the RetryConfig of the running retry_call
    attempt,     \* retry_call's loop variable
    calls,       \* invocations of the operation (= HTTP requests of safe_fetch)
    sleeps,      \* the delays passed to time.sleep, in order (milliseconds)
    bases,       \* the pre-jitter base delay of each sleep, in order
    hist,        \* the outcome of each invocation, in order
    outcome,     \* how retry_call ended: a return value or a raised exception
    req,         \* safe_fetch's arguments
    vetted,      \* the resolver's answer validate_url_ssrf_strict inspected
    connected,   \* the addresses the HTTP client connected to
    resp,        \* the last HTTP response _do_fetch received
    chunksRead,  \* body chunks _do_fetch took from the last response
    result,      \* the dict safe_fetch returned
    \* ---- resolve_redirects / scrape_content (SpecScrape)
    sUrl,        \* the url argument of the running scrape_content call
    sDepth,      \* its _redirect_depth argument
    sPc,         \* "call" | "done"
    sHead,       \* what the last HEAD of resolve_redirects met
    sDns,        \* the resolver's answer when the resolved URL was validated
    sResolved,   \* the dict the last resolve_redirects returned
    sHeads,      \* HEAD requests sent by resolve_redirects
    sStrategies, \* the platform strategies invoked, in order, with their URLs
    sOut,        \* the envelope scrape_content returned
    \* ---- _url_to_key (SpecKey)
    kUrls,       \* two URL strings
    kKeys,       \* their cache keys
    kTable,      \* the cache keys of the URLs the cache is called with
    \* ---- ContentCache (SpecCache, SpecFetcher)
    cCfg,        \* the CacheConfig
    cDir,        \* the *.json files of cache_dir, by key
    cTmp,        \* the *.tmp files of cache_dir, by key
    cNow,        \* time.time()
    cOp,         \* the last cache operation and what it did
    cPrev,       \* the operation before it
    cRun,        \* the successful sets in a row since the directory was empty
    cOps,        \* operations made
    fOut,        \* what the last BaseFetcher.fetch handed back
    fCall,       \* that call: its url, whether the cache held an unexpired entry for it, the invocations of _fetch_impl
    \* ---- get_cache / reset_cache (SpecLock)
    gCache,      \* _global_cache
    nInst,       \* ContentCache instances constructed
    instLock,    \* the holder of each instance's _lock
    tPc,         \* each thread: "idle" | "create" | "return" | "acquire" | "inside"
    tCache,      \* the cache each thread got from get_cache()
    tOp,         \* the method each thread calls
    \* ---- vault_healthy (SpecVault)
    hDb,         \* what lies at vault.db
    hPc,         \* "idle" | "exists" | "connect" | "execute" | "finally" | "done"
    hConn,       \* the connection of this call: "none" | "open" | "closed"
    hOpened,     \* connections opened so far
    hCloses,     \* conn.close() calls so far
    hPragma,     \* how the PRAGMA ended
    hRet,        \* what vault_healthy returned
    hCalls,      \* calls made
    hSeen,       \* what db.exists() looked at,
    \* ---- BaseFetcher.fetch and the cache lock (SpecFetchLock)
    bPc,         \* each thread's place in BaseFetcher.fetch
    bLock,       \* the holder of the cache's _lock
    bNet,        \* each thread's network activity
    bSteps,      \* network activities of the running _fetch_impl
    bStored,     \* an entry for the URL is in the cache,
    \* ---- detect_url_type (SpecDetect)
    dUrl,        \* the URL given to detect_url_type
    dType,       \* what it returned,
    \* ---- TwitterFetcher._fetch_impl on a reply (SpecThread)
    wPosts,      \* the posts the syndication endpoint holds
    wNote,       \* post 42 is a note tweet
    wFx,         \* what FxTwitter answers for post 42
    wOut,        \* what the Twitter strategy returned
    wTried,      \* the calls of fetch_thread_reconstruction it made,
    \* ---- sanitize_content (SpecSanitize)
    zIn,         \* the text given to sanitize_content
    zFormat,     \* the content_format
    zOnce,       \* sanitize_content(zIn)
    zTwice,      \* sanitize_content(zOnce)
    zPc,         \* "input" | "once" | "twice",
    \* ---- the cache under scrape_content (SpecScrape, SpecReroute)
    pCache,      \* the keys of the entries the content cache holds
    pStored,     \* what became of the last strategy run's result: "none" | "hit" | "failed" | "not_cacheable" | "stored" | "refused" | "marker"
    pAgain,      \* the repeated calls of scrape_content made so far,
    \* ---- the reply-chain walk of fetch_thread_reconstruction (SpecWalk)
    yPosts,      \* the posts the syndication endpoint holds: the reply graph
    yAuthor,     \* thread_author
    yCurrent,    \* current_id
    yTweets,     \* tweets: the ids of the posts collected, root first
    ySeen,       \* seen_ids
    yFetches,    \* the calls of fetch_tweet_syndication made
    yPc,         \* "idle" | "loop" | "after" | "done"
    yOut,        \* what fetch_thread_reconstruction returned,
    \* ---- extract_comments (SpecExtract)
    eIn,         \* comments_data: the children of the comment listing
    eOut,        \* what extract_comments returned
    ePc,         \* "idle" | "call" | "done",
    \* ---- two instances on one directory (SpecShared)
    qNames,      \* the cache directory: the file under the temporary and under the final name
    qData,       \* the blocks of each file
    qNext,       \* the next new file
    qPc,         \* each instance's place in set: "open" | "write" | "rename" | "done"
    qFd,         \* the file each instance has open
    qOff,        \* the offset of its descriptor
    qLen,        \* the blocks of each instance's entry
    qRet,        \* what set returned,
    \* ---- requests and redirects (SpecHops)
    jWho,        \* "safe_fetch" | "resolve_redirects"
    jUrl,        \* the url of the call
    jRoute,      \* the redirects still ahead
    jAt,         \* the URL the client is at
    jSent,       \* the requests sent, in order
    jPassed,     \* the URLs that have passed the SSRF validation
    jPc,         \* "idle" | "start" | "request" | "response" | "done"
    jOut         \* how the call ended

ssrfVars == <<vUrl, vDns, vPc, vResult, vStrict>>
retryVars == <<caller, pc, cfg, attempt, calls, sleeps, bases, hist, outcome>>
fetchVars == <<req, vetted, connected, resp, chunksRead, result>>
scrapeVars == <<sUrl, sDepth, sPc, sHead, sDns, sResolved, sHeads, sStrategies, sOut>>
keyVars == <<kUrls, kKeys, kTable>>
cacheVars == <<cCfg, cDir, cTmp, cNow, cOp, cPrev, cRun, cOps>>
fetcherVars == <<fOut, fCall>>
lockVars == <<gCache, nInst, instLock, tPc, tCache, tOp>>
vaultVars == <<hDb, hPc, hConn, hOpened, hCloses, hPragma, hRet, hCalls, hSeen>>
flockVars == <<bPc, bLock, bNet, bSteps, bStored>>
detectVars == <<dUrl, dType>>
threadVars == <<wPosts, wNote, wFx, wOut, wTried>>
sanitizeVars == <<zIn, zFormat, zOnce, zTwice, zPc>>
pipeVars == <<pCache, pStored, pAgain>>
walkVars == <<yPosts, yAuthor, yCurrent, yTweets, ySeen, yFetches, yPc, yOut>>
extractVars == <<eIn, eOut, ePc>>
sharedVars == <<qNames, qData, qNext, qPc, qFd, qOff, qLen, qRet>>
hopVars == <<jWho, jUrl, jRoute, jAt, jSent, jPassed, jPc, jOut>>
auxVars == <<vaultVars, flockVars, detectVars, threadVars, sanitizeVars, pipeVars, walkVars, extractVars, sharedVars, hopVars>>
storeVars == <<keyVars, cacheVars, fetcherVars, lockVars, auxVars>>
vars == <<ssrfVars, retryVars, fetchVars, scrapeVars, storeVars>>

(***************************************************************************)
(* IP addresses and networks (Python's ipaddress module, as                *)
(* validators_ssrf.py uses it).  An address is its version and its groups: *)
(* four octets, or eight 16-bit groups.                                    *)
(***************************************************************************)
Ip4(a, b, c, d) == [v |-> 4, g |-> <<a, b, c, d>>]
Ip6(s) == [v |-> 6, g |-> s]
Net(base, len) == [base |-> base, len |-> len]

RECURSIVE Pow2(_)
Pow2(n) == IF n = 0 THEN 1 ELSE 2 * Pow2(n - 1)

GroupBits(ip) == IF ip.v = 4 THEN 8 ELSE 16

\* `ip in network`: false across versions, else the first net.len bits agree.
InNetwork(ip, net) ==
    /\ ip.v = net.base.v
    /\ LET w == GroupBits(ip)
           full == net.len \div w
           rem == net.len % w
       IN /\ \A i \in 1..full : ip.g[i] = net.base.g[i]
          /\ rem > 0 =>
                ip.g[full + 1] \div Pow2(w - rem) = net.base.g[full + 1] \div Pow2(w - rem)

Z6(a, b) == Ip6(<<a, b, 0, 0, 0, 0, 0, 0>>)

PRIVATE_IP_NETWORKS ==
    << Net(Ip4(10, 0, 0, 0), 8),
       Net(Ip4(172, 16, 0, 0), 12),
       Net(Ip4(192, 168, 0, 0), 16),
       Net(Ip4(127, 0, 0, 0), 8),
       Net(Ip4(169, 254, 0, 0), 16),
       Net(Ip4(100, 64, 0, 0), 10),
       Net(Ip4(192, 0, 0, 0), 24),
       Net(Ip4(192, 0, 2, 0), 24),
       Net(Ip4(198, 51, 100, 0), 24),
       Net(Ip4(203, 0, 113, 0), 24),
       Net(Ip4(224, 0, 0, 0), 4),
       Net(Ip4(240, 0, 0, 0), 4),
       Net(Ip4(255, 255, 255, 255), 32),
       Net(Ip4(0, 0, 0, 0), 8),
       Net(Ip6(<<0, 0, 0, 0, 0, 0, 0, 1>>), 128),
       Net(Z6(64512, 0), 7),       \* fc00::/7
       Net(Z6(65152, 0), 10),      \* fe80::/10
       Net(Z6(65280, 0), 8) >>     \* ff00::/8

\* is_private_ip on the text of a well-formed address (ip_address never
\* raises ValueError for the addresses the model passes).
is_private_ip(ip) ==
    \E i \in 1..Len(PRIVATE_IP_NETWORKS) : InNetwork(ip, PRIVATE_IP_NETWORKS[i])

(***************************************************************************)
(* URLs.  A URL is kept parsed, the way urlparse and the netloc handling   *)
(* of validate_url_ssrf see it: surrounding whitespace, scheme, userinfo,  *)
(* host, IPv6 bracket, port, and the dotted word of the path and of the    *)
(* query string ("/x.com" has the path word <<"x", "com">>; <<>> stands    *)
(* for a path or query without one).  A host is a DNS name (its labels)    *)
(* or an IP literal.                                                       *)
(***************************************************************************)
NoIp == [v |-> 0, g |-> <<>>]
NameHost(labels) == [kind |-> "name", labels |-> labels, ip |-> NoIp]
IpHost(ip) == [kind |-> "ip", labels |-> <<>>, ip |-> ip]
NoHost == [kind |-> "none", labels |-> <<>>, ip |-> NoIp]

Url(scheme, host) ==
    [ws |-> FALSE, scheme |-> scheme, userinfo |-> FALSE, host |-> host,
     bracket |-> IF host.kind = "ip" /\ host.ip.v = 6 THEN "closed" ELSE "none",
     port |-> FALSE, path |-> <<>>, query |-> <<>>]

\* str.strip()
Strip(url) == [url EXCEPT !.ws = FALSE]

\* str.lower() on the labels the model uses.
Lower(s) ==
    CASE s = "LOCALHOST" -> "localhost"
      [] s = "Example" -> "example"
      [] s = "COM" -> "com"
      [] s = "Internal" -> "internal"
      [] OTHER -> s

LowerAll(labels) == [i \in 1..Len(labels) |-> Lower(labels[i])]

ALLOWED_SCHEMES == {"http", "https"}

\* BLOCKED_HOSTNAMES, the names as label sequences and the address texts as
\* the addresses they denote ("[::1]" can match no extracted hostname: the
\* brackets are removed before the lookup).
BlockedNames ==
    { <<"localhost">>, <<"localhost", "localdomain">>,
      <<"metadata", "google", "internal">>, <<"metadata">>,
      <<"internal">>, <<"local">>, <<"corp">>, <<"intranet">>,
      <<"127", "0", "0", "1">>, <<"0", "0", "0", "0">>,
      <<"169", "254", "169", "254">> }

BlockedAddresses ==
    { Ip4(127, 0, 0, 1), Ip4(0, 0, 0, 0), Ip4(169, 254, 169, 254),
      Ip6(<<0, 0, 0, 0, 0, 0, 0, 1>>) }

IsSuffix(b, labels) ==
    /\ Len(b) < Len(labels)
    /\ \A i \in 1..Len(b) : labels[Len(labels) - Len(b) + i] = b[i]

is_blocked_hostname(host) ==
    IF host.kind = "ip" THEN host.ip \in BlockedAddresses
    ELSE LET h == LowerAll(host.labels)
         IN \/ h \in BlockedNames
            \/ \E b \in BlockedNames : IsSuffix(b, h)

\* socket.getaddrinfo(hostname): a literal address yields itself without a
\* lookup, a name yields the resolver's answer.
AddrInfo(host, dns) ==
    IF host.kind = "ip" THEN [status |-> "ok", addrs |-> <<host.ip>>] ELSE dns

Verdict(ok, reason) == [ok |-> ok, reason |-> reason]

\* Lines 193-207: some resolved address is private; a failed resolution
\* (gaierror or any other exception) is swallowed.
ResolvesPrivate(info) ==
    /\ info.status = "ok"
    /\ \E i \in 1..Len(info.addrs) : is_private_ip(info.addrs[i])

validate_url_ssrf(url, dns, resolve_hostname) ==
    IF url.scheme = "" /\ url.host.kind = "none" /\ ~url.ws
    THEN Verdict(FALSE, "empty")
    ELSE IF url.scheme \notin ALLOWED_SCHEMES THEN Verdict(FALSE, "scheme")
    ELSE IF url.host.kind = "none" THEN Verdict(FALSE, "nohost")
    ELSE IF url.bracket = "open" THEN Verdict(FALSE, "bracket")
    ELSE IF is_blocked_hostname(url.host) THEN Verdict(FALSE, "blocked")
    ELSE IF url.host.kind = "ip" /\ is_private_ip(url.host.ip)
    THEN Verdict(FALSE, "private_ip")
    ELSE IF resolve_hostname /\ ResolvesPrivate(AddrInfo(url.host, dns))
    THEN Verdict(FALSE, "resolves_private")
    ELSE Verdict(TRUE, "")

\* Raises SSRFError (raised, with the reason) or returns url.strip().
validate_url_ssrf_strict(url, dns, resolve_hostname) ==
    LET r == validate_url_ssrf(url, dns, resolve_hostname)
    IN IF ~r.ok THEN [raised |-> TRUE, error |-> r.reason, value |-> Url("", NoHost)]
       ELSE [raised |-> FALSE, error |-> "", value |-> Strip(url)]

(***************************************************************************)
(* Inputs of the validator: sample addresses, each with the class the      *)
(* IANA special-purpose registries give it, sample host names, and         *)
(* sample resolver answers.                                                *)
(***************************************************************************)
Tagged(ip, cls) == [ip |-> ip, cls |-> cls]

Mapped4(a, b, c, d) == Ip6(<<0, 0, 0, 0, 0, 65535, a * 256 + b, c * 256 + d>>)

IpSamples ==
    { Tagged(Ip4(10, 0, 0, 1), "rfc1918"),
      Tagged(Ip4(172, 16, 0, 1), "rfc1918"),
      Tagged(Ip4(172, 31, 255, 254), "rfc1918"),
      Tagged(Ip4(192, 168, 1, 1), "rfc1918"),
      Tagged(Ip4(127, 0, 0, 1), "loopback"),
      Tagged(Ip4(127, 8, 9, 10), "loopback"),
      Tagged(Ip4(169, 254, 169, 254), "link-local"),
      Tagged(Ip4(169, 254, 1, 1), "link-local"),
      Tagged(Ip4(100, 64, 0, 1), "cgnat"),
      Tagged(Ip4(100, 127, 255, 254), "cgnat"),
      Tagged(Ip4(192, 0, 2, 1), "documentation"),
      Tagged(Ip4(198, 51, 100, 7), "documentation"),
      Tagged(Ip4(203, 0, 113, 9), "documentation"),
      Tagged(Ip4(224, 0, 0, 1), "multicast"),
      Tagged(Ip4(239, 255, 255, 250), "multicast"),
      Tagged(Ip4(240, 0, 0, 1), "reserved"),
      Tagged(Ip4(255, 255, 255, 255), "broadcast"),
      Tagged(Ip4(93, 184, 216, 34), "public"),
      Tagged(Ip4(8, 8, 8, 8), "public"),
      Tagged(Ip4(172, 32, 0, 1), "public"),
      Tagged(Ip4(100, 128, 0, 1), "public"),
      Tagged(Ip4(192, 167, 1, 1), "public"),
      Tagged(Ip4(223, 255, 255, 254), "public"),
      Tagged(Ip6(<<0, 0, 0, 0, 0, 0, 0, 1>>), "loopback"),
      Tagged(Ip6(<<64768, 4660, 0, 0, 0, 0, 0, 1>>), "rfc1918"),      \* fd00:1234::1
      Tagged(Ip6(<<65152, 0, 0, 0, 0, 0, 0, 1>>), "link-local"),      \* fe80::1
      Tagged(Ip6(<<65282, 0, 0, 0, 0, 0, 0, 1>>), "multicast"),       \* ff02::1
      Tagged(Ip6(<<8193, 3512, 0, 0, 0, 0, 0, 1>>), "documentation"), \* 2001:db8::1
      Tagged(Mapped4(127, 0, 0, 1), "loopback"),                      \* ::ffff:127.0.0.1
      Tagged(Mapped4(10, 0, 0, 1), "rfc1918"),                        \* ::ffff:10.0.0.1
      Tagged(Ip6(<<9734, 18176, 18176, 0, 0, 0, 0, 4369>>), "public"), \* 2606:4700:4700::1111
      Tagged(Ip6(<<8193, 18528, 18528, 0, 0, 0, 0, 34952>>), "public") } \* 2001:4860:4860::8888

\* The classes the SSRF gate is to keep out.
PrivateClasses ==
    { "rfc1918", "loopback", "link-local", "cgnat", "documentation", "multicast",
      "reserved", "broadcast" }

ClassOf(ip) == (CHOOSE t \in IpSamples : t.ip = ip).cls

NameSamples ==
    { <<"example", "com">>, <<"Example", "COM">>, <<"api", "example", "com">>,
      <<"t", "co">>, <<"rebind", "attacker", "net">>,
      <<"localhost">>, <<"LOCALHOST">>, <<"metadata", "google", "internal">>,
      <<"db", "corp">>, <<"wiki", "Internal">>, <<"printer", "local">>,
      <<"intranet">>, <<"x", "127", "0", "0", "1">> }

HostSamples ==
    { NameHost(n) : n \in NameSamples } \cup { IpHost(t.ip) : t \in IpSamples }

DnsOk(addrs) == [status |-> "ok", addrs |-> addrs]
DnsFail(kind) == [status |-> kind, addrs |-> <<>>]

DnsSamples ==
    { DnsOk(<<Ip4(93, 184, 216, 34)>>),
      DnsOk(<<Ip4(10, 0, 0, 1)>>),
      DnsOk(<<Ip4(93, 184, 216, 34), Ip4(127, 0, 0, 1)>>),
      DnsOk(<<Ip6(<<9734, 18176, 18176, 0, 0, 0, 0, 4369>>), Ip4(8, 8, 8, 8)>>),
      DnsOk(<<Ip4(8, 8, 8, 8), Ip6(<<65152, 0, 0, 0, 0, 0, 0, 1>>)>>),
      DnsOk(<<Mapped4(127, 0, 0, 1)>>),
      DnsOk(<<Ip4(8, 8, 8, 8), Ip6(<<8193, 3512, 0, 0, 0, 0, 0, 1>>)>>),
      DnsFail("gaierror"),
      DnsFail("oserror") }

UrlSamples ==
    { Url(s, h) : s \in {"http", "https"}, h \in HostSamples }
    \cup { [Url("https", h) EXCEPT !.ws = TRUE] : h \in HostSamples }
    \cup { [Url("http", h) EXCEPT !.userinfo = TRUE, !.port = TRUE] : h \in HostSamples }
    \cup { [Url("http", IpHost(Ip6(<<0, 0, 0, 0, 0, 0, 0, 1>>))) EXCEPT !.bracket = "open"],
           Url("ftp", NameHost(<<"example", "com">>)),
           Url("file", NoHost), Url("http", NoHost), Url("", NoHost),
           [Url("", NoHost) EXCEPT !.ws = TRUE] }

(***************************************************************************)
(* The retry engine (_shared/retry.py).  Times are in milliseconds and     *)
(* fractions in thousandths: 1.0 s is 1000, a jitter_range of 0.5 is 500,  *)
(* and random.random() yields r / 1000.                                    *)
(***************************************************************************)
MaxRetriesBound == 2

DEFAULT_MAX_RETRIES == 3
DEFAULT_INITIAL_DELAY == 1000
DEFAULT_MULTIPLIER == 2
DEFAULT_MAX_DELAY == 30000
DEFAULT_JITTER_RANGE == 500

TRANSIENT_STATUS_CODES == {429, 500, 502, 503, 504}
PERMANENT_STATUS_CODES == {400, 401, 403, 404}

TRANSIENT_EXCEPTIONS ==
    {"requests.ConnectionError", "requests.Timeout", "ConnectionError", "TimeoutError",
     "OSError"}

\* The classes an exception is an instance of.  requests derives
\* RequestException, the base of its HTTPError, ConnectionError, Timeout and
\* ChunkedEncodingError, from IOError, which is OSError.
Mro(cls) ==
    CASE cls \in {"HTTPError", "requests.ConnectionError", "requests.Timeout",
                  "ChunkedEncodingError"} ->
            {cls, "RequestException", "OSError", "Exception"}
      [] cls \in {"ConnectionError", "TimeoutError"} -> {cls, "OSError", "Exception"}
      [] cls \in {"ContentSizeError", "SSRFError"} -> {cls, "URLValidationError", "Exception"}
      [] OTHER -> {cls, "Exception"}

IsInstance(e, classes) == Mro(e.cls) \cap classes # {}

\* The status of an exception that carries no response (e.response is None),
\* and the status_code None of a result.
NoStatus == 0

Dict(success, status_code, content, error) ==
    [success |-> success, status_code |-> status_code, content |-> content, error |-> error]

NoDict == Dict(FALSE, NoStatus, 0, "unset")

\* What one invocation of the operation does: return a value or raise.
Ret(v) == [kind |-> "return", cls |-> "", status |-> NoStatus, value |-> v]
Exc(cls, status) == [kind |-> "raise", cls |-> cls, status |-> status, value |-> NoDict]
NoOutcome == [kind |-> "none", cls |-> "", status |-> NoStatus, value |-> NoDict]

RetryConfig(max_retries, initial_delay, multiplier, max_delay, jitter_range) ==
    [max_retries |-> max_retries, initial_delay |-> initial_delay,
     multiplier |-> multiplier, max_delay |-> max_delay, jitter_range |-> jitter_range,
     transient_status_codes |-> TRANSIENT_STATUS_CODES,
     transient_exceptions |-> TRANSIENT_EXCEPTIONS]

RECURSIVE Power(_, _)
Power(b, n) == IF n = 0 THEN 1 ELSE b * Power(b, n - 1)

Min(a, b) == IF a < b THEN a ELSE b
Max(a, b) == IF a > b THEN a ELSE b

\* A mutant of BaseDelay: the delay shrinks with the attempt number.
BaseDelayShrinking(c, n) ==
    Min(c.initial_delay \div Power(c.multiplier + 1, n), c.max_delay)

\* compute_delay, lines 118-119: the delay before jitter.
BaseDelay(c, n) == Min(c.initial_delay * Power(c.multiplier, n), c.max_delay)

\* compute_delay with random.random() = r / 1000.
compute_delay(c, n, r) ==
    LET base == BaseDelay(c, n)
        jitter == 1000 + (c.jitter_range * (2 * r - 1000)) \div 1000
    IN Max(0, IF c.jitter_range > 0 THEN (base * jitter) \div 1000 ELSE base)

is_transient_error(e, c) ==
    IF IsInstance(e, c.transient_exceptions) THEN TRUE
    ELSE IF IsInstance(e, {"HTTPError"})
    THEN IF e.status # NoStatus THEN e.status \in c.transient_status_codes ELSE TRUE
    ELSE FALSE

\* A mutant of RetriesExhausted: one retry too few.
RetriesExhaustedEarly(n, c) == n + 1 >= c.max_retries

\* Line 258: no retries left.
RetriesExhausted(n, c) == n >= c.max_retries

\* Line 241: attempt is in range(cfg.max_retries + 1).
InRange(n, c) == n < c.max_retries + 1

\* The values random.random() takes: under a direct retry_call, and under
\* safe_fetch (whose delays no caller observes).
RandSamples == {0, 500, 999}
FetchRandSamples == {500}

\* One iteration of retry_call's loop, the operation having done o: the
\* retry_call returns, re-raises, or sleeps and moves to the next attempt.
\* `after` is the program counter of the caller once retry_call has ended.
RetryIteration(o, after) ==
    /\ InRange(attempt, cfg)
    /\ calls' = calls + 1
    /\ hist' = Append(hist, o)
    /\ cfg' = cfg
    /\ caller' = caller
    /\ IF o.kind = "return" \/ ~is_transient_error(o, cfg) \/ RetriesExhausted(attempt, cfg)
       THEN /\ outcome' = o
            /\ pc' = after
            /\ UNCHANGED <<attempt, sleeps, bases>>
       ELSE /\ \E r \in (IF caller = "retry_call" THEN RandSamples ELSE FetchRandSamples) :
                sleeps' = Append(sleeps, compute_delay(cfg, attempt, r))
            /\ bases' = Append(bases, BaseDelay(cfg, attempt))
            /\ attempt' = attempt + 1
            /\ outcome' = outcome
            /\ pc' = pc

\* Lines 288-291: the loop ended without a return or a raise.
LoopEndOutcome == IF Len(hist) > 0 THEN hist[Len(hist)] ELSE Exc("RuntimeError", NoStatus)

(***************************************************************************)
(* safe_fetch (_shared/fetch_base.py).  Sizes are in bytes, scaled down:   *)
(* a body is the sequence of the lengths of the chunks iter_content        *)
(* yields.                                                                 *)
(***************************************************************************)
NoLength == [kind |-> "absent", n |-> 0]
Length(n) == [kind |-> "int", n |-> n]
BadLength == [kind |-> "garbage", n |-> 0]

\* An HTTP response: status, Content-Length header, the chunks the body
\* stream delivers, and whether the stream then breaks instead of ending.
Resp(status, cl, chunks, broken) ==
    [status |-> status, cl |-> cl, chunks |-> chunks, broken |-> broken]

NoResp == Resp(NoStatus, NoLength, <<>>, FALSE)

RECURSIVE Sum(_, _)
Sum(seq, k) == IF k = 0 THEN 0 ELSE seq[k] + Sum(seq, k - 1)

\* The first chunk at which the accumulated size exceeds max_size, or 0.
FirstOver(chunks, max_size) ==
    IF \E k \in 1..Len(chunks) : Sum(chunks, k) > max_size
    THEN CHOOSE k \in 1..Len(chunks) :
            /\ Sum(chunks, k) > max_size
            /\ \A j \in 1..(k - 1) : Sum(chunks, j) <= max_size
    ELSE 0

Fetched(o, read) == [o |-> o, read |-> read]

\* A mutant of RaisedStatus: raise_for_status() on every response.
RaisedStatusAny(status) == status >= 400

\* Lines 103-104: the statuses _do_fetch turns into an HTTPError.
RaisedStatus(status) == status \in TRANSIENT_STATUS_CODES

\* A mutant of ReadBody: no size check while streaming.
ReadBodyUnchecked(r, max_size) ==
    IF r.cl.kind = "garbage" THEN Fetched(Exc("ValueError", NoStatus), 0)
    ELSE IF r.cl.kind = "int" /\ r.cl.n > max_size
    THEN Fetched(Ret(Dict(FALSE, r.status, 0, "Response too large")), 0)
    ELSE IF r.broken THEN Fetched(Exc("ChunkedEncodingError", NoStatus), Len(r.chunks))
    ELSE Fetched(Ret(Dict(TRUE, r.status, Sum(r.chunks, Len(r.chunks)), "")), Len(r.chunks))

\* Lines 106-133: the Content-Length pre-check (int() of a header that is no
\* number raises ValueError), then the streamed read with its size check.
ReadBody(r, max_size) ==
    IF r.cl.kind = "garbage" THEN Fetched(Exc("ValueError", NoStatus), 0)
    ELSE IF r.cl.kind = "int" /\ r.cl.n > max_size
    THEN Fetched(Ret(Dict(FALSE, r.status, 0, "Response too large")), 0)
    ELSE LET over == FirstOver(r.chunks, max_size)
         IN IF over > 0
            THEN Fetched(Ret(Dict(FALSE, r.status, 0, "Response exceeded size limit")), over)
            ELSE IF r.broken
            THEN Fetched(Exc("ChunkedEncodingError", NoStatus), Len(r.chunks))
            ELSE Fetched(Ret(Dict(TRUE, r.status, Sum(r.chunks, Len(r.chunks)), "")),
                         Len(r.chunks))

\* _do_fetch once requests.get has returned response r: what it returns or
\* raises, and how many body chunks it took from the stream.
do_fetch(r, max_size) ==
    IF RaisedStatus(r.status) THEN Fetched(Exc("HTTPError", r.status), 0)
    ELSE ReadBody(r, max_size)

\* Lines 135-149: what safe_fetch returns for the way the fetch ended.
SafeFetchResult(o) ==
    IF o.kind = "return" THEN o.value
    ELSE IF IsInstance(o, {"ContentSizeError"}) THEN Dict(FALSE, NoStatus, 0, "ContentSizeError")
    ELSE IF IsInstance(o, {"requests.Timeout"}) THEN Dict(FALSE, NoStatus, 0, "Request timeout")
    ELSE IF IsInstance(o, {"HTTPError"}) THEN Dict(FALSE, o.status, 0, "HTTP status")
    ELSE Dict(FALSE, NoStatus, 0, o.cls)

(***************************************************************************)
(* Inputs of retry_call and safe_fetch.                                    *)
(***************************************************************************)
Value(v) == Dict(TRUE, NoStatus, v, "")

OperationOutcomes ==
    { Ret(Value(7)) }
    \cup { Exc("HTTPError", st) : st \in {404, 500, 503, NoStatus} }
    \cup { Exc("requests.Timeout", NoStatus), Exc("ConnectionError", NoStatus),
           Exc("ValueError", NoStatus) }

RetryConfigs ==
    { RetryConfig(m, DEFAULT_INITIAL_DELAY, mult, maxd, jr) :
        m \in -1..MaxRetriesBound, mult \in {1, DEFAULT_MULTIPLIER},
        maxd \in {1500, DEFAULT_MAX_DELAY}, jr \in {0, DEFAULT_JITTER_RANGE} }

PublicAddr == Ip4(93, 184, 216, 34)
PrivateAddr == Ip4(10, 0, 0, 1)

FetchUrls ==
    { Url("https", NameHost(<<"example", "com">>)),
      Url("http", IpHost(PublicAddr)),
      Url("http", IpHost(PrivateAddr)),
      Url("https", NameHost(<<"localhost">>)),
      Url("ftp", NameHost(<<"example", "com">>)) }

MaxChunks == 2
MaxFetchRetries == 1
ChunkLens == {1, 2}
MaxSizeValues == {1, 2}

FetchRequests ==
    { [url |-> u, retry |-> rt, max_retries |-> m, max_size |-> ms] :
        u \in FetchUrls, rt \in BOOLEAN, m \in -1..MaxFetchRetries, ms \in MaxSizeValues }

FetchDnsSamples == { DnsOk(<<PublicAddr>>), DnsOk(<<PrivateAddr>>), DnsFail("gaierror") }

BodySamples == { <<>> } \cup UNION { [1..k -> ChunkLens] : k \in 1..MaxChunks }

LengthSamples == { NoLength, BadLength, Length(2), Length(3) }

ResponseSamples ==
    { Resp(st, NoLength, <<>>, FALSE) : st \in {429, 500, 503} }
    \cup { Resp(st, cl, b, br) :
             st \in {200, 404}, cl \in LengthSamples, b \in BodySamples, br \in BOOLEAN }
    \cup { Resp(st, NoLength, <<1>>, FALSE) : st \in {400, 401, 403} }

\* What the network does to one requests.get once the client is connected.
ServerSamples ==
    { [conn |-> "refused", resp |-> NoResp], [conn |-> "timeout", resp |-> NoResp] }
    \cup { [conn |-> "ok", resp |-> r] : r \in ResponseSamples }

(***************************************************************************)
(* Cache keys (_shared/content_cache.py).  A URL string is the sequence of *)
(* its characters, so that strip, split, replace and lower act as          *)
(* Python's str methods do.                                                *)
(***************************************************************************)
UpperLetters ==
    <<"A", "B", "C", "D", "E", "F", "G", "H", "I", "J", "K", "L", "M",
      "N", "O", "P", "Q", "R", "S", "T", "U", "V", "W", "X", "Y", "Z">>

LowerLetters ==
    <<"a", "b", "c", "d", "e", "f", "g", "h", "i", "j", "k", "l", "m",
      "n", "o", "p", "q", "r", "s", "t", "u", "v", "w", "x", "y", "z">>

Whitespace == {" ", "\t", "\n"}

\* str.lower()
str_lower(s) ==
    [i \in 1..Len(s) |->
        IF \E k \in 1..Len(UpperLetters) : UpperLetters[k] = s[i]
        THEN LowerLetters[CHOOSE k \in 1..Len(UpperLetters) : UpperLetters[k] = s[i]]
        ELSE s[i]]

\* s[i:] starts with t
StartsAt(s, i, t) ==
    /\ i + Len(t) - 1 <= Len(s)
    /\ \A j \in 1..Len(t) : s[i + j - 1] = t[j]

\* str.find(t) + 1: the position of the first occurrence of t in s, 0 if none
str_find(s, t) ==
    IF \E i \in 1..Len(s) : StartsAt(s, i, t)
    THEN CHOOSE i \in 1..Len(s) : StartsAt(s, i, t) /\ \A j \in 1..(i - 1) : ~StartsAt(s, j, t)
    ELSE 0

\* str.strip()
str_strip(s) ==
    IF \A i \in 1..Len(s) : s[i] \in Whitespace THEN <<>>
    ELSE LET first == CHOOSE i \in 1..Len(s) :
                          s[i] \notin Whitespace /\ \A j \in 1..(i - 1) : s[j] \in Whitespace
             last == CHOOSE i \in 1..Len(s) :
                          s[i] \notin Whitespace /\ \A j \in (i + 1)..Len(s) : s[j] \in Whitespace
         IN SubSeq(s, first, last)

\* str.rstrip(c)
str_rstrip(s, c) ==
    IF \A i \in 1..Len(s) : s[i] = c THEN <<>>
    ELSE LET last == CHOOSE i \in 1..Len(s) :
                          s[i] # c /\ \A j \in (i + 1)..Len(s) : s[j] = c
         IN SubSeq(s, 1, last)

\* str.replace(old, new): every occurrence, left to right, not overlapping
RECURSIVE str_replace(_, _, _)
str_replace(s, old, new) ==
    IF Len(s) < Len(old) THEN s
    ELSE IF StartsAt(s, 1, old)
    THEN new \o str_replace(SubSeq(s, Len(old) + 1, Len(s)), old, new)
    ELSE <<s[1]>> \o str_replace(Tail(s), old, new)

\* Lines 170-201.
_normalize_url(url) ==
    IF url = <<>> THEN <<>>
    ELSE LET stripped == str_strip(url)
             hash == str_find(stripped, <<"#">>)
             nofrag == IF hash = 0 THEN stripped ELSE SubSeq(stripped, 1, hash - 1)
             r1 == str_replace(nofrag, <<"w", "w", "w", ".", "t", "w", "i", "t", "t", "e", "r", ".", "c", "o", "m">>, <<"x", ".", "c", "o", "m">>)
             r2 == str_replace(r1, <<"t", "w", "i", "t", "t", "e", "r", ".", "c", "o", "m">>, <<"x", ".", "c", "o", "m">>)
             r3 == str_replace(r2, <<"o", "l", "d", ".", "r", "e", "d", "d", "i", "t", ".", "c", "o", "m">>, <<"r", "e", "d", "d", "i", "t", ".", "c", "o", "m">>)
             r4 == str_replace(r3, <<"w", "w", "w", ".", "r", "e", "d", "d", "i", "t", ".", "c", "o", "m">>, <<"r", "e", "d", "d", "i", "t", ".", "c", "o", "m">>)
             noslash == str_rstrip(r4, "/")
             sep == str_find(noslash, <<":", "/", "/">>)
         IN IF sep = 0 THEN noslash
            ELSE LET scheme == str_lower(SubSeq(noslash, 1, sep - 1))
                     rest == SubSeq(noslash, sep + 3, Len(noslash))
                     slash == str_find(rest, <<"/">>)
                 IN IF slash = 0 THEN scheme \o <<":", "/", "/">> \o str_lower(rest)
                    ELSE scheme \o <<":", "/", "/">> \o str_lower(SubSeq(rest, 1, slash - 1))
                         \o <<"/">> \o SubSeq(rest, slash + 1, Len(rest))

\* The characters of s as one string.
RECURSIVE Text(_)
Text(s) == IF s = <<>> THEN "" ELSE s[1] \o Text(Tail(s))

\* hashlib.sha256(...).hexdigest(): a digest names its preimage (no
\* collisions).
hexdigest(s) == [digest_of |-> Text(s)]

\* Lines 216-217.
_url_to_key(url) == hexdigest(_normalize_url(url))

\* A sample URL with the resource it denotes under the aliasing rules
\* (scheme and host case, fragment, trailing slash, twitter.com /
\* www.twitter.com / x.com, old.reddit.com / www.reddit.com / reddit.com).
Aliased(url, resource) == [url |-> url, resource |-> resource]

KeySamples ==
    { Aliased(<<"h", "t", "t", "p", "s", ":", "/", "/", "x", ".", "c", "o", "m", "/", "x", "/", "s", "t", "a", "t", "u", "s", "/", "1">>,
              "tweet1"),
      Aliased(<<"h", "t", "t", "p", "s", ":", "/", "/", "W", "W", "W", ".", "T", "w", "i", "t", "t", "e", "r", ".", "c", "o", "m", "/", "x", "/", "s", "t", "a", "t", "u", "s", "/", "1", "/">>,
              "tweet1"),
      Aliased(<<"h", "t", "t", "p", "s", ":", "/", "/", "w", "w", "w", ".", "t", "w", "i", "t", "t", "e", "r", ".", "c", "o", "m", "/", "x", "/", "s", "t", "a", "t", "u", "s", "/", "1">>,
              "tweet1"),
      Aliased(<<"h", "t", "t", "p", "s", ":", "/", "/", "t", "w", "i", "t", "t", "e", "r", ".", "c", "o", "m", "/", "x", "/", "s", "t", "a", "t", "u", "s", "/", "1", "#", "t", "o", "p">>,
              "tweet1"),
      Aliased(<<"H", "T", "T", "P", "S", ":", "/", "/", "X", ".", "C", "O", "M", "/", "x", "/", "s", "t", "a", "t", "u", "s", "/", "1">>,
              "tweet1"),
      Aliased(<<" ", "h", "t", "t", "p", "s", ":", "/", "/", "x", ".", "c", "o", "m", "/", "x", "/", "s", "t", "a", "t", "u", "s", "/", "1", "/", "/", " ">>,
              "tweet1"),
      Aliased(<<"h", "t", "t", "p", "s", ":", "/", "/", "x", ".", "c", "o", "m", "/", "x", "/", "s", "t", "a", "t", "u", "s", "/", "2">>,
              "tweet2"),
      Aliased(<<"h", "t", "t", "p", "s", ":", "/", "/", "r", "e", "d", "d", "i", "t", ".", "c", "o", "m", "/", "r", "/", "a">>,
              "post"),
      Aliased(<<"h", "t", "t", "p", "s", ":", "/", "/", "o", "l", "d", ".", "r", "e", "d", "d", "i", "t", ".", "c", "o", "m", "/", "r", "/", "a", "/">>,
              "post"),
      Aliased(<<"h", "t", "t", "p", "s", ":", "/", "/", "w", "w", "w", ".", "r", "e", "d", "d", "i", "t", ".", "c", "o", "m", "/", "r", "/", "a", "#", "c">>,
              "post"),
      Aliased(<<"h", "t", "t", "p", "s", ":", "/", "/", "e", "x", "a", "m", "p", "l", "e", ".", "c", "o", "m">>,
              "home"),
      Aliased(<<"h", "t", "t", "p", "s", ":", "/", "/", "E", "x", "a", "m", "p", "l", "e", ".", "c", "o", "m", "/">>,
              "home"),
      Aliased(<<"h", "t", "t", "p", "s", ":", "/", "/", "e", "x", "a", "m", "p", "l", "e", ".", "c", "o", "m", "/", "A">>,
              "pageA"),
      Aliased(<<"h", "t", "t", "p", "s", ":", "/", "/", "e", "x", "a", "m", "p", "l", "e", ".", "c", "o", "m", "/", "a">>,
              "pagea"),
      Aliased(<<"x", ".", "c", "o", "m", "/", "x">>,
              "bare") }


(***************************************************************************)
(* The content cache (_shared/content_cache.py).  A payload is the dict a  *)
(* strategy returns; a cache file holds the JSON text of an entry, or      *)
(* bytes that are no entry.  Times are seconds on an integer clock, sizes  *)
(* are bytes.                                                              *)
(***************************************************************************)
\* A payload: its type, success, _do_not_cache and redirect keys, its
\* error when it is a failure, the Python shape of its content ("str",
\* "list", "tuple", or "set", which json cannot serialize) and the length
\* of its serialized cache entry.
Payload(type, success, do_not_cache, redirect, error, shape, bytes) ==
    [type |-> type, success |-> success, do_not_cache |-> do_not_cache,
     redirect |-> redirect, error |-> error, shape |-> shape, bytes |-> bytes]

NoData == Payload("none", FALSE, FALSE, FALSE, "", "none", 0)

\* json.dumps: str becomes a JSON string, list and tuple a JSON array.
json_dumps(data) ==
    [data EXCEPT !.shape = IF data.shape \in {"list", "tuple"} THEN "array"
                           ELSE IF data.shape = "str" THEN "string"
                           ELSE data.shape]

\* json.loads: a JSON string becomes a str, a JSON array a list.
json_loads(text) ==
    [text EXCEPT !.shape = IF text.shape = "array" THEN "list"
                           ELSE IF text.shape = "string" THEN "str"
                           ELSE text.shape]

Serializable(data) == data.shape \in {"str", "list", "tuple"}

\* A file of the cache directory: kind "entry" holds the JSON of a
\* CacheEntry; "not_json" is text json.loads rejects, "not_entry" is JSON
\* that is no entry (a key is missing), "not_utf8" is bytes that are no
\* UTF-8 text, "partial" is the beginning of an entry; "absent" is no file.
File(kind, url, data, created_at, ttl, bytes) ==
    [kind |-> kind, url |-> url, data |-> data, created_at |-> created_at,
     ttl |-> ttl, bytes |-> bytes]

NoFile == File("absent", "", NoData, 0, 0, 0)
Damaged(kind) == File(kind, "", NoData, 0, 0, 64)
Partial == Damaged("partial")

\* CacheEntry(...).to_dict() serialized.
CacheEntry(url, data, created_at, ttl) ==
    File("entry", url, json_dumps(data), created_at, ttl, data.bytes)

CacheConfig(enabled, ttl_metadata, ttl_content, max_entries, max_size_mb) ==
    [enabled |-> enabled, ttl_metadata |-> ttl_metadata, ttl_content |-> ttl_content,
     max_entries |-> max_entries, max_size_mb |-> max_size_mb]

get_ttl(config, ttl_type) ==
    IF ttl_type = "metadata" THEN config.ttl_metadata ELSE config.ttl_content

\* Lines 241-249: CacheEntry.is_expired at time now.
is_expired(entry, now) == now > entry.created_at + entry.ttl

\* What reading and parsing a file as an entry raises, if anything.
ReadError(f) ==
    IF f.kind = "not_utf8" THEN "UnicodeDecodeError"
    ELSE IF f.kind \in {"not_json", "partial"} THEN "JSONDecodeError"
    ELSE IF f.kind = "not_entry" THEN "KeyError"
    ELSE "none"

\* The *.json files of the directory.
Present(dir) == {k \in DOMAIN dir : dir[k].kind # "absent"}

\* _remove_entry
remove_entry(dir, k) == [dir EXCEPT ![k] = NoFile]

\* One removal made by _enforce_limits or _cleanup_expired: the file, why
\* it went, and the directory as it was just before.
Removal(k, why, before) == [key |-> k, why |-> why, before |-> before]

\* The outcome of a pass over the directory: the directory after it, the
\* removals in order, and whether an exception ended it.
Pass(dir, removed, raised) == [dir |-> dir, removed |-> removed, raised |-> raised]

\* Lines 609-635: _cleanup_expired from the i-th file of the glob on.  A
\* file that is no UTF-8 text raises UnicodeDecodeError, which no except
\* clause of the loop names.
RECURSIVE cleanup_from(_, _, _, _, _)
cleanup_from(dir, now, glob, i, removed) ==
    IF i > Len(glob) THEN Pass(dir, removed, FALSE)
    ELSE LET k == glob[i]
             f == dir[k]
         IN IF f.kind = "absent" THEN cleanup_from(dir, now, glob, i + 1, removed)
            ELSE IF ReadError(f) = "UnicodeDecodeError" THEN Pass(dir, removed, TRUE)
            ELSE IF ReadError(f) # "none"
            THEN cleanup_from(remove_entry(dir, k), now, glob, i + 1,
                              Append(removed, Removal(k, "corrupt", dir)))
            ELSE IF is_expired(f, now)
            THEN cleanup_from(remove_entry(dir, k), now, glob, i + 1,
                              Append(removed, Removal(k, "expired", dir)))
            ELSE cleanup_from(dir, now, glob, i + 1, removed)

_cleanup_expired(dir, now, glob) == cleanup_from(dir, now, glob, 1, <<>>)

\* A mutant of ListedCreatedAt: every file is listed with the same age.
ListedCreatedAtSame(f) == 0

\* Lines 686-693: the created_at _list_entries_sorted reads from a file.
ListedCreatedAt(f) == IF f.kind = "entry" THEN f.created_at ELSE 0

Position(glob, k) == CHOOSE i \in 1..Len(glob) : glob[i] = k

\* Lines 676-698: the files sorted by created_at; list.sort is stable, so
\* equal created_at keep the order of the glob.
RECURSIVE sorted_from(_, _, _)
sorted_from(dir, glob, rest) ==
    IF rest = {} THEN <<>>
    ELSE LET first == CHOOSE k \in rest : \A j \in rest :
                          \/ ListedCreatedAt(dir[k]) < ListedCreatedAt(dir[j])
                          \/ /\ ListedCreatedAt(dir[k]) = ListedCreatedAt(dir[j])
                             /\ Position(glob, k) <= Position(glob, j)
         IN <<first>> \o sorted_from(dir, glob, rest \ {first})

_list_entries_sorted(dir, glob) == sorted_from(dir, glob, Present(dir))

\* Lines 700-711.
RECURSIVE size_of(_, _)
size_of(dir, keys) ==
    IF keys = {} THEN 0
    ELSE LET k == CHOOSE k \in keys : TRUE
         IN dir[k].bytes + size_of(dir, keys \ {k})

_get_total_size(dir) == size_of(dir, Present(dir))

\* A mutant of EvictNeeded: one entry too many is tolerated.
EvictNeededLate(n, max_entries) == n > max_entries

\* Line 649: the test of the count loop.
EvictNeeded(n, max_entries) == n >= max_entries

\* Lines 649-653: pop and remove the oldest while the list holds at least
\* max_entries entries.
RECURSIVE evict_count(_, _, _, _)
evict_count(dir, entries, max_entries, removed) ==
    IF EvictNeeded(Len(entries), max_entries) /\ entries # <<>>
    THEN evict_count(remove_entry(dir, entries[1]), Tail(entries), max_entries,
                     Append(removed, Removal(entries[1], "count", dir)))
    ELSE Pass(dir, removed, FALSE)

\* A mutant of OverSize: the total size is never found too large.
OverSizeNever(total_size, max_bytes) == FALSE

\* Lines 658 and 661: the size test of _enforce_limits.
OverSize(total_size, max_bytes) == total_size > max_bytes

\* Lines 661-674: pop and remove the oldest while the total size is above
\* max_bytes.
RECURSIVE evict_size(_, _, _, _, _)
evict_size(dir, entries, total_size, max_bytes, removed) ==
    IF OverSize(total_size, max_bytes) /\ entries # <<>>
    THEN evict_size(remove_entry(dir, entries[1]), Tail(entries),
                    total_size - dir[entries[1]].bytes, max_bytes,
                    Append(removed, Removal(entries[1], "size", dir)))
    ELSE Pass(dir, removed, FALSE)


\* Sample URLs of cache calls.  TLA+ strings do not give their characters:
\* Spelled does.
UrlA == "https://x.com/a"
UrlATwitter == "https://twitter.com/a"
UrlAWww == "https://www.twitter.com/a"
UrlB == "https://x.com/b"
UrlV == "https://youtu.be/v"

Spelled ==
    (UrlA :> <<"h", "t", "t", "p", "s", ":", "/", "/", "x", ".", "c", "o", "m", "/", "a">>)
    @@ (UrlATwitter :>
          <<"h", "t", "t", "p", "s", ":", "/", "/", "t", "w", "i", "t", "t", "e", "r", ".", "c", "o", "m", "/", "a">>)
    @@ (UrlAWww :>
          <<"h", "t", "t", "p", "s", ":", "/", "/", "w", "w", "w", ".", "t", "w", "i", "t", "t", "e", "r", ".", "c", "o", "m", "/", "a">>)
    @@ (UrlB :> <<"h", "t", "t", "p", "s", ":", "/", "/", "x", ".", "c", "o", "m", "/", "b">>)
    @@ (UrlV :>
          <<"h", "t", "t", "p", "s", ":", "/", "/", "y", "o", "u", "t", "u", ".", "b", "e", "/", "v">>)

CacheUrls == DOMAIN Spelled

\* _url_to_key of the sample URLs, computed once.
KnownKeys == [u \in CacheUrls |-> _url_to_key(Spelled[u])]

\* The key of a sample URL, looked up in the table Init filled.
url_key(url) == kTable[url]

\* The names the entry files of the sample URLs have.
CacheKeys == { kTable[u] : u \in CacheUrls }


\* Lines 655-674: the size limit, on what the count limit left.
limit_size(counted, total_size, max_bytes, glob) ==
    IF OverSize(total_size, max_bytes)
    THEN evict_size(counted.dir, _list_entries_sorted(counted.dir, glob),
                    total_size, max_bytes, counted.removed)
    ELSE counted

\* Lines 647-653: the count limit, on what _cleanup_expired left; an
\* exception of _cleanup_expired leaves _enforce_limits at once.
limit_count(cleaned, config, glob) ==
    IF cleaned.raised THEN cleaned
    ELSE evict_count(cleaned.dir, _list_entries_sorted(cleaned.dir, glob),
                     config.max_entries, cleaned.removed)

limit_total(counted, config, glob) ==
    IF counted.raised THEN counted
    ELSE limit_size(counted, _get_total_size(counted.dir),
                    config.max_size_mb * 1024 * 1024, glob)

\* Lines 637-674: _enforce_limits.
_enforce_limits(dir, config, now, glob) ==
    limit_total(limit_count(_cleanup_expired(dir, now, glob), config, glob), config, glob)

\* What get returns: the directory after it, the data (on a hit), and the
\* exception that left it, if any.
GetResult(dir, hit, data, raised) ==
    [dir |-> dir, hit |-> hit, data |-> data, raised |-> raised]

\* Lines 326-386: ContentCache.get.
get(dir, config, now, url) ==
    LET key == url_key(url)
        f == dir[key]
    IN IF ~config.enabled THEN GetResult(dir, FALSE, NoData, "none")
       ELSE IF f.kind = "absent" THEN GetResult(dir, FALSE, NoData, "none")
       ELSE IF ReadError(f) = "UnicodeDecodeError"
       THEN GetResult(dir, FALSE, NoData, "UnicodeDecodeError")
       ELSE IF ReadError(f) # "none"
       THEN GetResult(remove_entry(dir, key), FALSE, NoData, "none")
       ELSE IF is_expired(f, now)
       THEN GetResult(remove_entry(dir, key), FALSE, NoData, "none")
       ELSE GetResult(dir, TRUE, json_loads(f.data), "none")

\* A mutant of set_precheck: the per-entry size cap is not applied.
set_precheck_uncapped(config, data) ==
    IF ~config.enabled THEN "disabled"
    ELSE IF ~data.success THEN "failed"
    ELSE IF ~Serializable(data) THEN "unserializable"
    ELSE "ok"

\* Lines 416-448: the checks of set that end it before the directory is
\* touched.
set_precheck(config, data) ==
    IF ~config.enabled THEN "disabled"
    ELSE IF ~data.success THEN "failed"
    ELSE IF ~Serializable(data) THEN "unserializable"
    ELSE IF data.bytes > 1000000 THEN "too_large"
    ELSE "ok"

Files(dir, tmp) == [dir |-> dir, tmp |-> tmp]

\* A mutant of write_entry: the entry is written in place.
write_entry_in_place(dir, tmp, key, entry, stage) ==
    IF stage = "partial" THEN Files([dir EXCEPT ![key] = Partial], tmp)
    ELSE Files([dir EXCEPT ![key] = entry], tmp)

\* Lines 453-456: the write, up to a stage: the temporary file partly
\* written, the temporary file written, the temporary file renamed onto
\* the entry.
write_entry(dir, tmp, key, entry, stage) ==
    IF stage = "partial" THEN Files(dir, [tmp EXCEPT ![key] = Partial])
    ELSE IF stage = "written" THEN Files(dir, [tmp EXCEPT ![key] = entry])
    ELSE Files([dir EXCEPT ![key] = entry], [tmp EXCEPT ![key] = NoFile])

\* What set hands back and leaves: the files, the value returned, the
\* removals made, and the entry files as _enforce_limits left them (as
\* they were, when set ended before it).
SetResult(dir, tmp, ret, removed, enforced) ==
    [dir |-> dir, tmp |-> tmp, ret |-> ret, removed |-> removed, enforced |-> enforced]

\* Lines 451-473: set after _enforce_limits: an exception of it is caught
\* and ends set with False, otherwise the entry is written.
set_write(limited, tmp, key, entry) ==
    IF limited.raised THEN SetResult(limited.dir, tmp, FALSE, limited.removed, limited.dir)
    ELSE LET w == write_entry(limited.dir, tmp, key, entry, "renamed")
         IN SetResult(w.dir, w.tmp, TRUE, limited.removed, limited.dir)

\* Lines 388-473: ContentCache.set.
set(dir, tmp, config, now, url, data, ttl_type, glob) ==
    IF set_precheck(config, data) # "ok" THEN SetResult(dir, tmp, FALSE, <<>>, dir)
    ELSE set_write(_enforce_limits(dir, config, now, glob), tmp, url_key(url),
                   CacheEntry(url, data, now, get_ttl(config, ttl_type)))

CrashPoints == {"enforce", "partial", "written", "renamed"}

CrashedAt(point) == "crash:" \o point

Crashes == { CrashedAt(point) : point \in CrashPoints }

\* The files a process leaves that dies inside set: in _enforce_limits
\* after k of its removals, or at a stage of the write.
crash_files(limited, tmp, key, entry, point, k) ==
    IF point = "enforce" \/ limited.raised
    THEN IF k < Len(limited.removed)
         THEN Files(limited.removed[k + 1].before, tmp)
         ELSE Files(limited.dir, tmp)
    ELSE write_entry(limited.dir, tmp, key, entry, point)

set_crashed(dir, tmp, config, now, url, data, ttl_type, glob, point, k) ==
    IF set_precheck(config, data) # "ok" THEN Files(dir, tmp)
    ELSE crash_files(_enforce_limits(dir, config, now, glob), tmp, url_key(url),
                     CacheEntry(url, data, now, get_ttl(config, ttl_type)), point, k)

\* Lines 475-498: ContentCache.invalidate.
invalidate(dir, url) ==
    LET key == url_key(url)
    IN [dir |-> remove_entry(dir, key), ret |-> dir[key].kind # "absent"]

\* Lines 500-521: ContentCache.clear.
clear(dir) == [dir |-> [k \in DOMAIN dir |-> NoFile], ret |-> Cardinality(Present(dir))]

\* Lines 587-600: ContentCache.cleanup.
cleanup(dir, now, glob) == _cleanup_expired(dir, now, glob)


(***************************************************************************)
(* The platform strategies (fetchers/base.py, fetchers/twitter/,           *)
(* fetchers/youtube.py).  An upstream scenario fixes what every request a  *)
(* strategy makes meets.                                                   *)
(***************************************************************************)
\* What a function hands back: a returned payload or a raised exception.
Returned(payload) == [kind |-> "return", payload |-> payload, cls |-> ""]
Raised(cls) == [kind |-> "raise", payload |-> NoData, cls |-> cls]
NoResult == [kind |-> "none", payload |-> NoData, cls |-> ""]

Failure(error) == Payload("", FALSE, FALSE, FALSE, error, "str", 200)
Success(type) == Payload(type, TRUE, FALSE, FALSE, "", "str", 400000)

\* What safe_fetch returned to a strategy: its success and status_code,
\* and what the body is: "object" (a JSON object), "array" (JSON, but no
\* object), "not_json", "not_utf8".
Upstream(success, status_code, body) ==
    [success |-> success, status_code |-> status_code, body |-> body]

\* json.loads(result["content"].decode("utf-8")) followed by reads of the
\* parsed object with "in" and .get.
ParseError(body) ==
    IF body = "not_utf8" THEN "UnicodeDecodeError"
    ELSE IF body = "not_json" THEN "JSONDecodeError"
    ELSE IF body = "array" THEN "AttributeError"
    ELSE "none"

\* tweets.py lines 35-69: fetch_tweet_syndication.
fetch_tweet_syndication(r) ==
    IF ~r.success THEN Returned(Failure("safe_fetch"))
    ELSE IF r.status_code = 200
    THEN IF ParseError(r.body) # "none" THEN Raised(ParseError(r.body))
         ELSE Returned(Success("tweet"))
    ELSE IF r.status_code = 404 THEN Returned(Failure("Tweet not found or is an article"))
    ELSE Returned(Failure("HTTP status"))

\* youtube.py lines 80-99: fetch_metadata_oembed.
fetch_metadata_oembed(r) ==
    IF ~r.success THEN Returned(Failure("safe_fetch"))
    ELSE IF r.status_code = 200
    THEN IF ParseError(r.body) # "none" THEN Raised(ParseError(r.body))
         ELSE Returned(Success("metadata"))
    ELSE IF r.status_code = 404 THEN Returned(Failure("Video not found"))
    ELSE Returned(Failure("HTTP status"))

\* An upstream scenario of one fetch.
\*   url_kind   "tweet" | "article" | "no_id": what the URL names
\*   response   what safe_fetch returns for the syndication / oEmbed request
\*   parent     what it returns for the parent tweet of a reply
\*   article    fetch_article: "ok" | "failed" | "none"
\*   note       the tweet is a note tweet; fx: FxTwitter succeeds
\*   reply      "none" | "self" (a reply to the same author) | "other"
\*   thread     fetch_thread_reconstruction returns a thread
\*   tco        "none" (the text is no bare t.co link) | "failed" |
\*              "article" | "twitter" | "external": where the link resolves
\*   transcript "ok" | "unavailable" | "missing_dependency"
Scenario(url_kind, response, parent, article, note, fx, reply, thread, tco, transcript) ==
    [url_kind |-> url_kind, response |-> response, parent |-> parent,
     article |-> article, note |-> note, fx |-> fx, reply |-> reply,
     thread |-> thread, tco |-> tco, transcript |-> transcript]

ArticleResult(article) ==
    IF article = "ok" THEN Success("article") ELSE Failure("Article fetch failed")

RedirectMarker(do_not_cache) ==
    Payload("", TRUE, do_not_cache, TRUE, "", "str", 400000)

\* fetcher.py lines 167-233: the tail of TwitterFetcher._fetch_impl for a
\* successful tweet.
tco_tail(tweet, up) ==
    IF up.tco = "none" THEN Returned(tweet)
    ELSE IF up.tco = "article" THEN Returned(ArticleResult(up.article))
    ELSE IF up.tco = "twitter" THEN Returned(RedirectMarker(TRUE))
    ELSE IF up.tco = "external" THEN Returned(RedirectMarker(FALSE))
    ELSE Returned([tweet EXCEPT !.do_not_cache = TRUE])

\* fetcher.py lines 72-233: TwitterFetcher._fetch_impl.
twitter_fetch_impl(up) ==
    IF up.url_kind = "article"
    THEN Returned(ArticleResult(up.article))
    ELSE IF up.url_kind = "no_id"
    THEN Returned(Failure("Could not extract tweet ID from URL"))
    ELSE LET first == fetch_tweet_syndication(up.response)
             tweet == first.payload
         IN IF first.kind = "raise" THEN first
            ELSE IF ~tweet.success
            THEN IF tweet.error = "Tweet not found or is an article" /\ up.article = "ok"
                 THEN Returned(Success("article"))
                 ELSE first
            ELSE IF up.note /\ up.fx THEN Returned(Success("tweet"))
            ELSE IF up.reply = "none" THEN tco_tail(tweet, up)
            ELSE LET parent == fetch_tweet_syndication(up.parent)
                 IN IF parent.kind = "raise" THEN parent
                    ELSE IF up.reply = "self" /\ parent.payload.success /\ up.thread
                    THEN Returned(Success("thread"))
                    ELSE tco_tail(tweet, up)

\* youtube.py lines 202-273: YouTubeFetcher._fetch_impl.
youtube_fetch_impl(up) ==
    IF up.url_kind = "no_id"
    THEN Returned(Failure("Could not extract video ID from URL"))
    ELSE LET metadata == fetch_metadata_oembed(up.response)
         IN IF metadata.kind = "raise" THEN metadata
            ELSE IF ~metadata.payload.success THEN metadata
            ELSE IF up.transcript = "missing_dependency"
            THEN Returned([Success("youtube") EXCEPT !.do_not_cache = TRUE])
            ELSE Returned(Success("youtube"))

fetch_impl(content_type, up) ==
    IF content_type = "youtube" THEN youtube_fetch_impl(up) ELSE twitter_fetch_impl(up)

\* A mutant of Cacheable: the _do_not_cache flag is not looked at.
CacheableAlways(raw_result) == TRUE

\* base.py line 216.
Cacheable(raw_result) == ~raw_result.do_not_cache

\* What BaseFetcher.fetch hands to its caller: an envelope, or an
\* exception.
FetchEnvelope(success, content_type, from_cache, raw, error) ==
    [kind |-> "return", cls |-> "", success |-> success, content_type |-> content_type,
     from_cache |-> from_cache, raw |-> raw, error |-> error]

FetchRaised(content_type, cls) ==
    [kind |-> "raise", cls |-> cls, success |-> FALSE, content_type |-> content_type,
     from_cache |-> FALSE, raw |-> NoData, error |-> ""]

NoFetch == [FetchEnvelope(FALSE, "", FALSE, NoData, "") EXCEPT !.kind = "none"]

\* base.py lines 149-226: BaseFetcher.fetch(url) on the cache files, under
\* an upstream scenario: the files after it and what the caller gets.
BaseFetch(files, out, impl_calls) ==
    [dir |-> files.dir, tmp |-> files.tmp, out |-> out, impl_calls |-> impl_calls]

NoFetchCall == [url |-> "", held |-> FALSE, impl_calls |-> 0]

\* The cache is enabled and the file under the key of url is a readable
\* entry that has not expired.
HoldsUnexpired(dir, config, now, url) ==
    /\ url # ""
    /\ config.enabled
    /\ dir[url_key(url)].kind = "entry"
    /\ ~is_expired(dir[url_key(url)], now)

\* A mutant of CacheHit: the cached result is not looked at.
CacheHitIgnored(cached) == FALSE

\* base.py line 192: `if cached is not None`.
CacheHit(cached) == cached.hit

fetch(dir, tmp, config, now, content_type, url, up, glob) ==
    IF url = ""
    THEN BaseFetch(Files(dir, tmp),
                   FetchEnvelope(FALSE, content_type, FALSE, NoData, "Invalid URL provided"), 0)
    ELSE LET cached == get(dir, config, now, url)
         IN IF cached.raised # "none"
            THEN BaseFetch(Files(cached.dir, tmp), FetchRaised(content_type, cached.raised), 0)
            ELSE IF CacheHit(cached)
            THEN BaseFetch(Files(cached.dir, tmp),
                           FetchEnvelope(TRUE, content_type, TRUE, cached.data, ""), 0)
            ELSE LET impl == fetch_impl(content_type, up)
                     raw_result == impl.payload
                 IN IF impl.kind = "raise"
                    THEN BaseFetch(Files(cached.dir, tmp), FetchRaised(content_type, impl.cls), 1)
                    ELSE IF ~raw_result.success
                    THEN BaseFetch(Files(cached.dir, tmp),
                                   FetchEnvelope(FALSE, content_type, FALSE, NoData,
                                                 raw_result.error), 1)
                    ELSE IF Cacheable(raw_result)
                    THEN LET stored == set(cached.dir, tmp, config, now, url, raw_result,
                                           "content", glob)
                         IN BaseFetch(Files(stored.dir, stored.tmp),
                                      FetchEnvelope(TRUE, content_type, FALSE, raw_result, ""), 1)
                    ELSE BaseFetch(Files(cached.dir, tmp),
                                   FetchEnvelope(TRUE, content_type, FALSE, raw_result, ""), 1)


(***************************************************************************)
(* The process's cache instance and the locks (content_cache.py lines      *)
(* 299-308, 714-748).  ContentCache instances are numbered in the order of *)
(* their construction.                                                     *)
(***************************************************************************)
MaxInstances == 2
NoCache == 0

Threads == {"t1", "t2"}
NoThread == "free"

CacheMethods == {"get", "set", "invalidate", "clear", "stats", "cleanup"}

\* A mutant of LockFree: the instance lock is not looked at.
LockFreeAlways(locks, inst) == TRUE

\* threading.Lock of instance inst is not held.
LockFree(locks, inst) == locks[inst] = NoThread

Inside(t) == tPc[t] = "inside"


(***************************************************************************)
(* Cache inputs.                                                           *)
(***************************************************************************)
MaxClock == 2
MaxOps == 2

\* Orders in which Path.glob("*.json") may list the files: one order and
\* its reverse.
GlobOrder == <<url_key(UrlA), url_key(UrlB), url_key(UrlV)>>

GlobOrders == { GlobOrder, <<url_key(UrlV), url_key(UrlB), url_key(UrlA)>> }

\* The orders in which the files of dir may be listed: one when there are
\* fewer than two.
Listings(dir) == IF Cardinality(Present(dir)) < 2 THEN {GlobOrder} ELSE GlobOrders

\* Payloads handed to set: a small one, one holding a tuple, one just over
\* the per-entry cap, a failure, and one json.dumps rejects.
SmallPayload == Payload("tweet", TRUE, FALSE, FALSE, "", "str", 400000)
TuplePayload == Payload("video", TRUE, FALSE, FALSE, "", "tuple", 700000)
OversizePayload == Payload("tweet", TRUE, FALSE, FALSE, "", "str", 1000001)
FailedPayload == Payload("", FALSE, FALSE, FALSE, "HTTP 500", "str", 200)
SetPayload == Payload("tweet", TRUE, FALSE, FALSE, "", "set", 300)

\* The set(url, data, ttl_type) calls made.
SetCall(url, data, ttl_type) == [url |-> url, data |-> data, ttl_type |-> ttl_type]

SetCalls ==
    { SetCall(u, SmallPayload, "content") : u \in CacheUrls \ {UrlV} }
    \cup { SetCall(UrlV, TuplePayload, "content"), SetCall(UrlA, SmallPayload, "metadata"),
           SetCall(UrlA, OversizePayload, "content"), SetCall(UrlA, FailedPayload, "content"),
           SetCall(UrlA, SetPayload, "content") }

\* The set call a process dies in.
CrashCalls == { SetCall(UrlA, SmallPayload, "content") }

\* The URLs of get and of invalidate calls.
GetUrls == {UrlA, UrlATwitter, UrlV}
InvalidateUrls == {UrlATwitter, UrlV}

ConfigSamples ==
    { CacheConfig(TRUE, 1, 2, 2, 50),
      CacheConfig(TRUE, 1, 1, 3, 1),
      CacheConfig(TRUE, 1, 1, 2, 0),
      CacheConfig(FALSE, 1, 1, 2, 50) }

DamageKinds == {"not_json", "not_utf8"}

EmptyDir == [k \in CacheKeys |-> NoFile]

\* The last cache operation: its name and arguments, what it returned
\* (for get: whether it hit, and the data), the exception that left it,
\* the removals it made, the files before it, and the clock.  A process
\* that died inside set is the operation "crash:" with the point it died
\* at.
Op(op, url, data, ttl_type, ret, raised, removed, before, at) ==
    [op |-> op, url |-> url, data |-> data, ttl_type |-> ttl_type, ret |-> ret,
     raised |-> raised, removed |-> removed, before |-> before, at |-> at,
     enforced |-> before.dir]

NoOp == Op("none", "", NoData, "", FALSE, "none", <<>>, Files(EmptyDir, EmptyDir), 0)

\* The operation before the last one.
Earlier(o) == [op |-> o.op, url |-> o.url, data |-> o.data, ret |-> o.ret, at |-> o.at]

\* The successful sets made in a row since the directory was empty, and
\* whether one of them purged an expired or corrupt file or evicted for
\* size.
Run(on, urls, purged, sized) ==
    [on |-> on, urls |-> urls, purged |-> purged, sized |-> sized]

NoRun == Run(FALSE, <<>>, FALSE, FALSE)

RunAfterSet(run, dir, config, url, res) ==
    LET base == IF Present(dir) = {} THEN Run(TRUE, <<>>, FALSE, FALSE) ELSE run
    IN IF base.on /\ res.ret /\ Len(base.urls) <= config.max_entries
       THEN Run(TRUE, Append(base.urls, url),
                base.purged \/ \E i \in 1..Len(res.removed) :
                                   res.removed[i].why \in {"expired", "corrupt"},
                base.sized \/ \E i \in 1..Len(res.removed) : res.removed[i].why = "size")
       ELSE NoRun

\* The cache as the actions see it: the files, the clock, the last two
\* operations and the run of sets.
CacheState(dir, tmp, now, op, prev, run) ==
    [dir |-> dir, tmp |-> tmp, now |-> now, op |-> op, prev |-> prev, run |-> run]

Cold == CacheState(EmptyDir, EmptyDir, 0, NoOp, Earlier(NoOp), NoRun)

\* The cache after a set call that ended with res.
AfterSet(c, config, call, res) ==
    CacheState(res.dir, res.tmp, c.now,
               [Op("set", call.url, call.data, call.ttl_type, res.ret, "none",
                   res.removed, Files(c.dir, c.tmp), c.now)
                   EXCEPT !.enforced = res.enforced],
               Earlier(c.op),
               RunAfterSet(c.run, c.dir, config, call.url, res))

\* The cache after one set call.
SetStep(c, config, call, glob) ==
    AfterSet(c, config, call,
             set(c.dir, c.tmp, config, c.now, call.url, call.data, call.ttl_type, glob))

Later(c) == [c EXCEPT !.now = c.now + 1]

\* The caches a behaviour starts from: the empty one, and the ones left
\* by set(UrlA), by set(UrlA) and set(UrlATwitter), and by set(UrlA) and,
\* a second later, set(UrlB).
AfterOne(config) ==
    SetStep(Cold, config, SetCall(UrlA, SmallPayload, "content"),
            GlobOrder)

\* A disabled cache, and one that keeps nothing, start empty.
WarmStarts(config) ==
    IF ~config.enabled \/ config.max_entries = 0 THEN {Cold}
    ELSE { Cold,
           AfterOne(config),
           SetStep(AfterOne(config), config, SetCall(UrlATwitter, SmallPayload, "content"),
                   GlobOrder),
           SetStep(Later(AfterOne(config)), config, SetCall(UrlB, SmallPayload, "content"),
                   GlobOrder) }


\* Upstream scenarios of a fetch.
Ok200 == Upstream(TRUE, 200, "object")

\* A tweet (or a video) that is fetched without incident.
PlainTweet == Scenario("tweet", Ok200, Ok200, "none", FALSE, FALSE, "none", FALSE, "none", "ok")

TwitterScenarios ==
    { PlainTweet,
      [PlainTweet EXCEPT !.response = Upstream(FALSE, NoStatus, "object")],
      [PlainTweet EXCEPT !.response = Upstream(TRUE, 404, "object")],
      [PlainTweet EXCEPT !.response = Upstream(TRUE, 404, "object"), !.article = "ok"],
      [PlainTweet EXCEPT !.response = Upstream(TRUE, 403, "object")],
      [PlainTweet EXCEPT !.response = Upstream(TRUE, 200, "not_json")],
      [PlainTweet EXCEPT !.response = Upstream(TRUE, 200, "not_utf8")],
      [PlainTweet EXCEPT !.response = Upstream(TRUE, 200, "array")],
      [PlainTweet EXCEPT !.note = TRUE, !.fx = TRUE],
      [PlainTweet EXCEPT !.note = TRUE],
      [PlainTweet EXCEPT !.reply = "self", !.thread = TRUE],
      [PlainTweet EXCEPT !.reply = "other", !.parent = Upstream(TRUE, 200, "not_json")],
      [PlainTweet EXCEPT !.tco = "failed"],
      [PlainTweet EXCEPT !.tco = "twitter"],
      [PlainTweet EXCEPT !.tco = "external"],
      [PlainTweet EXCEPT !.tco = "article", !.article = "ok"],
      [PlainTweet EXCEPT !.tco = "article", !.article = "failed"],
      [PlainTweet EXCEPT !.url_kind = "article", !.article = "ok"],
      [PlainTweet EXCEPT !.url_kind = "no_id"] }

YouTubeScenarios ==
    { PlainTweet,
      [PlainTweet EXCEPT !.response = Upstream(TRUE, 404, "object")],
      [PlainTweet EXCEPT !.response = Upstream(TRUE, 200, "not_json")],
      [PlainTweet EXCEPT !.transcript = "unavailable"],
      [PlainTweet EXCEPT !.transcript = "missing_dependency"] }

\* The fetch_twitter / fetch_youtube calls made, each with what it meets
\* upstream.
FetchCall(content_type, url, up) == [content_type |-> content_type, url |-> url, up |-> up]

FetchCalls ==
    { FetchCall("twitter", UrlA, up) : up \in TwitterScenarios }
    \cup { FetchCall("youtube", UrlV, up) : up \in YouTubeScenarios }
    \cup { FetchCall("twitter", UrlATwitter, PlainTweet), FetchCall("twitter", UrlB, PlainTweet),
           FetchCall("twitter", "", PlainTweet) }


(***************************************************************************)
(* vault_healthy (linkedin-post-generator/scripts/_lib/paths.py).          *)
(***************************************************************************)
MaxVaultCalls == 3

\* What lies at <vault home>/vault.db: nothing, a SQLite database, a file
\* that is no database, or a directory.
DbKinds == {"absent", "database", "not_database", "directory"}

\* Line 41: db.exists().
db_exists(db) == db # "absent"

\* Line 44: sqlite3.connect(str(db)) opens lazily: it raises
\* OperationalError only when the path cannot be opened as a file, and
\* creates the file when there is none.
connect_raises(db) == db = "directory"
db_after_connect(db) == IF db = "absent" THEN "database" ELSE db

\* Line 46: what conn.execute('PRAGMA user_version') can do on the open
\* connection: a file that is no database raises DatabaseError; a
\* database answers, or raises OperationalError when it is locked.
PragmaOutcomes(db) ==
    IF db = "not_database" THEN {"DatabaseError"}
    ELSE {"ok", "OperationalError"}

\* A mutant of FinallyCloses: the connection is closed on the success
\* path only.
FinallyClosesOnSuccess(pragma) == pragma = "ok"

\* Lines 48-49: the finally clause runs conn.close() however the try body
\* ended.
FinallyCloses(pragma) == TRUE

VaultStart(db) ==
    /\ hDb = db
    /\ hPc = "idle"
    /\ hConn = "none"
    /\ hOpened = 0
    /\ hCloses = 0
    /\ hPragma = "none"
    /\ hRet = "none"
    /\ hCalls = 0
    /\ hSeen = "none"

VaultIdle == VaultStart("absent")

(***************************************************************************)
(* BaseFetcher.fetch called by several threads on one ContentCache: where  *)
(* the cache's _lock is taken and released, and where the network is used. *)
(***************************************************************************)
MaxNetSteps == 3

\* What a strategy's _fetch_impl does on the network: DNS resolutions, HTTP
\* requests and the sleeps of retry_call between attempts.
NetworkActivities == {"dns", "http", "sleep"}

\* How ContentCache.get ends: with the entry's data, with None, or with an
\* exception that its handlers (lines 380-386) do not catch.
GetEndings(stored) == IF stored THEN {"hit", "miss", "raise"} ELSE {"miss"}

\* A mutant of HeldAfter: get keeps the lock when it misses.
HeldAfterMiss(method, ending) == method = "get" /\ ending = "miss"

\* content_cache.py lines 351 and 435: the body of get and of set is a
\* `with self._lock:` block, which releases the lock however it is left.
HeldAfter(method, ending) == FALSE

\* The holder of the lock once thread t leaves the method.
lock_after(lock, t, method, ending) ==
    IF HeldAfter(method, ending) THEN lock ELSE NoThread

FetchLockStart ==
    /\ bPc = [t \in Threads |-> "idle"]
    /\ bLock = NoThread
    /\ bNet = [t \in Threads |-> "none"]
    /\ bSteps = [t \in Threads |-> 0]
    /\ bStored = FALSE

FetchLockIdle == FetchLockStart

(***************************************************************************)
(* detect_url_type on URLs with a path and a query string.                 *)
(***************************************************************************)
DetectHosts ==
    { NameHost(n) :
        n \in { <<"x", "com">>, <<"twitter", "com">>, <<"gist", "github", "com">>,
                <<"github", "com">>, <<"www", "youtube", "com">>, <<"youtu", "be">>,
                <<"old", "reddit", "com">>, <<"redd", "it">>, <<"blog", "example", "com">>,
                <<"Example", "COM">>, <<"www", "netflix", "com">>, <<"localhost">> } }
    \cup { IpHost(PublicAddr), NoHost }

DetectWords ==
    { <<>>, <<"article">>, <<"x", "com">>, <<"gist", "github", "com">>, <<"youtu", "be">> }

DetectUrls ==
    { [Url(scheme, host) EXCEPT !.path = path, !.query = query] :
        scheme \in {"https", "http", "ftp", ""}, host \in DetectHosts,
        path \in DetectWords, query \in DetectWords }

DetectStart(u) ==
    /\ dUrl = u
    /\ dType = "unset"

DetectIdle == DetectStart(Url("", NoHost))

(***************************************************************************)
(* The Twitter strategy on a tweet that replies to another one             *)
(* (fetchers/twitter/fetcher.py, threads.py, tweets.py).  The posts are    *)
(* 42 (the one asked for), 41 and 40; 0 stands for "no post".              *)
(***************************************************************************)
PostIds == {40, 41, 42}
NoPost == 0
max_depth == 20

\* str.lower() on the author handles the model uses.
handle_lower(author) == IF author = "@U" THEN "@u" ELSE author

\* What the syndication endpoint holds for a post: whether the request
\* succeeds, the author's handle and the post replied to.
Post(ok, author, in_reply_to) == [ok |-> ok, author |-> author, in_reply_to |-> in_reply_to]

\* What a strategy function returns: a single tweet, a thread with its
\* thread_size and its list of tweets (its length), or a failure.
TweetResult(id) ==
    [success |-> TRUE, type |-> "tweet", id |-> id, thread_size |-> 0, tweets |-> 0]
ThreadResult(id, tweets) ==
    [success |-> TRUE, type |-> "thread", id |-> id, thread_size |-> Len(tweets),
     tweets |-> Len(tweets)]
FailedResult(id) ==
    [success |-> FALSE, type |-> "", id |-> id, thread_size |-> 0, tweets |-> 0]
NoTweet == FailedResult(NoPost)

\* What api.fxtwitter.com/status/<id> answers: "fail" (no 200, no JSON),
\* "no_tweet" (JSON without tweet data) or "tweet", with the length of the
\* tweet's thread list.
FxAnswer(kind, thread) == [kind |-> kind, thread |-> thread]

\* threads.py lines 24-107: fetch_thread_fxtwitter, which returns None
\* (here: fx_has_thread is false) unless the answer lists two tweets or
\* more.
fx_has_thread(fx) == fx.kind = "tweet" /\ fx.thread >= 2
fetch_thread_fxtwitter(id, fx) == ThreadResult(id, [i \in 1..fx.thread |-> i])

\* threads.py lines 149-186: the walk upward from current_id, which puts
\* each fetched tweet of thread_author in front of the list.
RECURSIVE walk_up(_, _, _, _, _)
walk_up(posts, thread_author, current_id, tweets, seen_ids) ==
    IF current_id = NoPost \/ Len(tweets) >= max_depth THEN tweets
    ELSE IF current_id \in seen_ids THEN tweets
    ELSE IF ~posts[current_id].ok THEN tweets
    ELSE IF handle_lower(posts[current_id].author) # handle_lower(thread_author) THEN tweets
    ELSE walk_up(posts, thread_author, posts[current_id].in_reply_to,
                 <<current_id>> \o tweets, seen_ids \cup {current_id})

\* threads.py lines 188-212: what the walk's list is turned into.
thread_of(tweet_id, tweets) ==
    IF tweets = <<>> THEN FailedResult(tweet_id)
    ELSE IF Len(tweets) = 1 THEN TweetResult(tweets[1])
    ELSE ThreadResult(tweet_id, tweets)

\* threads.py lines 109-212: fetch_thread_reconstruction.
fetch_thread_reconstruction(posts, fx, tweet_id, thread_author) ==
    IF fx_has_thread(fx) THEN fetch_thread_fxtwitter(tweet_id, fx)
    ELSE thread_of(tweet_id, walk_up(posts, thread_author, tweet_id, <<>>, {}))

\* fetcher.py lines 125-133: a note tweet that FxTwitter delivers is
\* returned at once, before the reply is looked at.
NoteTweetFirst(note, fx) == note /\ fx.kind = "tweet"

\* fetcher.py lines 136-165: the self-thread check of a successful tweet.
self_thread(posts, fx, tweet_id) ==
    LET parent_id == posts[tweet_id].in_reply_to
        tweet_author == posts[tweet_id].author
        parent_author == IF posts[parent_id].ok THEN posts[parent_id].author ELSE ""
        thread_result == fetch_thread_reconstruction(posts, fx, tweet_id, tweet_author)
    IN IF parent_id = NoPost THEN TweetResult(tweet_id)
       ELSE IF handle_lower(parent_author) # handle_lower(tweet_author) THEN TweetResult(tweet_id)
       ELSE IF thread_result.success /\ thread_result.type = "thread" THEN thread_result
       ELSE TweetResult(tweet_id)

\* fetcher.py lines 107-165: TwitterFetcher._fetch_impl for the URL of
\* tweet tweet_id whose text is no bare t.co link.
tweet_fetch_impl(posts, note, fx, tweet_id) ==
    IF ~posts[tweet_id].ok THEN FailedResult(tweet_id)
    ELSE IF NoteTweetFirst(note, fx) THEN TweetResult(tweet_id)
    ELSE self_thread(posts, fx, tweet_id)

\* fetcher.py lines 107-165: the calls of fetch_thread_reconstruction that
\* _fetch_impl makes on its way to that result.
reconstruction_calls(posts, note, fx, tweet_id) ==
    LET parent_id == posts[tweet_id].in_reply_to
        tweet_author == posts[tweet_id].author
        parent_author == IF posts[parent_id].ok THEN posts[parent_id].author ELSE ""
    IN IF ~posts[tweet_id].ok THEN 0
       ELSE IF NoteTweetFirst(note, fx) THEN 0
       ELSE IF parent_id = NoPost THEN 0
       ELSE IF handle_lower(parent_author) # handle_lower(tweet_author) THEN 0
       ELSE 1

Authors == {"@u", "@U", "@v"}
FxAnswers ==
    { FxAnswer("fail", 0), FxAnswer("no_tweet", 0) } \cup { FxAnswer("tweet", n) : n \in 0..3 }

ThreadWorlds ==
    { [p \in PostIds |->
          IF p = 42 THEN Post(ok[1], "@u", r42)
          ELSE IF p = 41 THEN Post(ok[2], a41, r41)
          ELSE Post(ok[3], a40, r40)] :
        ok \in [1..3 -> BOOLEAN], a41 \in Authors, a40 \in {"@u", "@v"},
        r42 \in {NoPost, 41}, r41 \in {NoPost, 40, 42}, r40 \in {NoPost} }

ThreadStart(posts, note, fx) ==
    /\ wPosts = posts
    /\ wNote = note
    /\ wFx = fx
    /\ wOut = NoTweet
    /\ wTried = 0

ThreadIdle ==
    ThreadStart([p \in PostIds |-> Post(FALSE, "", NoPost)], FALSE, FxAnswer("fail", 0))

(***************************************************************************)
(* sanitize_content (_shared/sanitizers.py).  A text is a sequence of      *)
(* tokens, each standing for the characters it spells; the patterns of     *)
(* the sanitizers are matched on the tokens as the regular expressions     *)
(* match them on the spelled text.  On these tokens the patterns for       *)
(* comments, style/iframe/object/embed/form/input/svg/math/base/meta/link  *)
(* elements, event handlers and Markdown links find nothing to match; the  *)
(* token ** is the one Markdown pattern the tokens spell.                  *)
(***************************************************************************)
MaxTokens == 3

Tokens == {"&", "amp;", "lt;", "<", ">", "b", "script", "/", "href=", "javascript:", "x", "**"}

\* The tokens made of word characters (\w+), and those that begin with a
\* letter.
WordTokens == {"b", "script", "x"}
LetterTokens == {"amp;", "lt;", "b", "script", "href=", "javascript:", "x"}

\* SAFE_HTML_TAGS (lines 305-342), as far as the tokens can spell them.
SAFE_HTML_TAGS == { <<"b">> }

Texts == UNION { [1..n -> Tokens] : n \in 0..MaxTokens }

\* Longer texts that mix markup of both kinds: up to MaxPieces pieces, each
\* an unsafe tag, a safe tag, a Markdown emphasis mark or a word.
MaxPieces == 4
Pieces == { <<"<", "x", ">">>, <<"<", "b", ">">>, <<"**">>, <<"x">> }

RECURSIVE Joined(_)
Joined(pieces) == IF pieces = <<>> THEN <<>> ELSE Head(pieces) \o Joined(Tail(pieces))

MixedTexts == { Joined(pieces) : pieces \in UNION { [1..n -> Pieces] : n \in 2..MaxPieces } }

StartsWithTokens(s, p) == Len(s) >= Len(p) /\ SubSeq(s, 1, Len(p)) = p
Drop(s, n) == SubSeq(s, n + 1, Len(s))

\* Line 423: html.unescape, one pass from the left.
RECURSIVE html_unescape(_)
html_unescape(s) ==
    IF s = <<>> THEN <<>>
    ELSE IF StartsWithTokens(s, <<"&", "amp;">>) THEN <<"&">> \o html_unescape(Drop(s, 2))
    ELSE IF StartsWithTokens(s, <<"&", "lt;">>) THEN <<"<">> \o html_unescape(Drop(s, 2))
    ELSE <<Head(s)>> \o html_unescape(Tail(s))

\* _RE_SCRIPT_TAG (line 352), <script[\s>].*?</script>: where the first
\* closing tag after an opening tag at the head of s ends, or 0.
ScriptEnd(s) ==
    LET ends == { j \in 3..Len(s) : StartsWithTokens(Drop(s, j), <<"<", "/", "script", ">">>) }
    IN IF StartsWithTokens(s, <<"<", "script", ">">>) /\ ends # {}
       THEN (CHOOSE j \in ends : \A k \in ends : j <= k) + 4
       ELSE 0

\* Lines 431 and 546: _RE_SCRIPT_TAG.sub("", result).
RECURSIVE remove_script(_)
remove_script(s) ==
    IF s = <<>> THEN <<>>
    ELSE IF ScriptEnd(s) > 0 THEN remove_script(Drop(s, ScriptEnd(s)))
    ELSE <<Head(s)>> \o remove_script(Tail(s))

\* Lines 449 and 568: _RE_JAVASCRIPT_URI.sub(r"\1=", result).
RECURSIVE remove_javascript_uri(_)
remove_javascript_uri(s) ==
    IF s = <<>> THEN <<>>
    ELSE IF StartsWithTokens(s, <<"href=", "javascript:">>)
    THEN <<"href=">> \o remove_javascript_uri(Drop(s, 2))
    ELSE <<Head(s)>> \o remove_javascript_uri(Tail(s))

\* _RE_HTML_TAG (line 379), <(/?)(\w+)(\s[^>]*)?>: the tag at the head of
\* s as [from, to, end]: its name is s[from..to] and it ends at s[end];
\* end = 0 when no tag starts there.
TagAt(s) ==
    LET from == IF Len(s) >= 2 /\ s[2] = "/" THEN 3 ELSE 2
        stops == { k \in from..Len(s) : s[k] \notin WordTokens }
        stop == IF stops = {} THEN Len(s) + 1 ELSE CHOOSE k \in stops : \A m \in stops : k <= m
    IN IF s # <<>> /\ s[1] = "<" /\ stop > from /\ stop <= Len(s) /\ s[stop] = ">"
       THEN [from |-> from, to |-> stop - 1, end |-> stop]
       ELSE [from |-> 0, to |-> 0, end |-> 0]

\* Lines 451-471: _filter_tag over every tag, which drops a tag that is
\* not safe and keeps the text around it.
RECURSIVE strip_unsafe_tags(_)
strip_unsafe_tags(s) ==
    IF s = <<>> THEN <<>>
    ELSE IF TagAt(s).end > 0
    THEN (IF SubSeq(s, TagAt(s).from, TagAt(s).to) \in SAFE_HTML_TAGS
          THEN SubSeq(s, 1, TagAt(s).end) ELSE <<>>)
         \o strip_unsafe_tags(Drop(s, TagAt(s).end))
    ELSE <<Head(s)>> \o strip_unsafe_tags(Tail(s))

\* Lines 397-473: sanitize_html.
sanitize_html(content) ==
    IF content = <<>> THEN <<>>
    ELSE strip_unsafe_tags(remove_javascript_uri(remove_script(html_unescape(content))))

\* Lines 516-570: sanitize_markdown.
sanitize_markdown(content) ==
    IF content = <<>> THEN <<>>
    ELSE remove_javascript_uri(remove_script(content))

\* Line 613: len(re.findall(r"<[a-zA-Z][^>]*>", content)).
RECURSIVE html_tag_count(_)
html_tag_count(s) ==
    IF s = <<>> THEN 0
    ELSE LET closes == { k \in 2..Len(s) : s[k] = ">" }
         IN IF Len(s) >= 2 /\ s[1] = "<" /\ s[2] \in LetterTokens /\ closes # {}
            THEN 1 + html_tag_count(Drop(s, CHOOSE k \in closes : \A m \in closes : k <= m))
            ELSE html_tag_count(Tail(s))

\* Lines 614-616: the count of Markdown patterns; of ^#{1,6}\s, \*\*, __
\* and [..](..) the tokens spell \*\*.
md_pattern_count(s) == Cardinality({ k \in 1..Len(s) : s[k] = "**" })

Formats == {"html", "markdown", "text", "auto"}

\* Lines 573-631: sanitize_content.
sanitize_content(content, content_format) ==
    IF content = <<>> THEN <<>>
    ELSE IF content_format = "html" THEN sanitize_html(content)
    ELSE IF content_format = "markdown" THEN sanitize_markdown(content)
    ELSE IF content_format = "text" THEN sanitize_markdown(sanitize_html(content))
    ELSE IF html_tag_count(content) > md_pattern_count(content) /\ html_tag_count(content) > 2
    THEN sanitize_html(content)
    ELSE IF md_pattern_count(content) > 0 THEN sanitize_markdown(content)
    ELSE sanitize_markdown(sanitize_html(content))

SanitizeStart(x, f) ==
    /\ zIn = x
    /\ zFormat = f
    /\ zOnce = <<>>
    /\ zTwice = <<>>
    /\ zPc = "input"

SanitizeIdle == SanitizeStart(<<>>, "auto")

\* dict.get(key, default)
Get(d, key, default) == IF key \in DOMAIN d THEN d[key] ELSE default

\* d[key] = value
Put(d, key, value) == (key :> value) @@ d

\* The failure dict that scrape_content and BaseFetcher.fetch build: it has
\* the keys success, content_type, url and error, and no other.
Envelope(content_type, url, error) ==
    [success |-> FALSE, content_type |-> content_type, url |-> url, error |-> error]

NoEnvelope == Envelope("unset", Url("", NoHost), "unset")

\* The repeated calls of scrape_content one run of the model makes.
MaxAgain == 1

\* _url_to_key(url) on a parsed URL (content_cache.py lines 170-217): the
\* text is stripped, the aliases of x.com and reddit.com are replaced
\* wherever they stand, as str.replace does, and then the host is
\* lower-cased.  A digest names its preimage.
cache_key(url) ==
    LET alias(w) ==
            str_replace(
                str_replace(
                    str_replace(
                        str_replace(w, <<"www", "twitter", "com">>, <<"x", "com">>),
                        <<"twitter", "com">>, <<"x", "com">>),
                    <<"old", "reddit", "com">>, <<"reddit", "com">>),
                <<"www", "reddit", "com">>, <<"reddit", "com">>)
    IN [Strip(url) EXCEPT !.host.labels = LowerAll(alias(@)),
                          !.path = alias(@), !.query = alias(@)]

\* The keys of the dict _transform_data builds in each strategy: twitter
\* (twitter/fetcher.py lines 251-263), github (github.py 349-367), gist
\* (gist.py 245-258), youtube (youtube.py 277-290), reddit (reddit.py
\* 409-425) and webpage (generic.py 174-182).
_transform_data(content_type) ==
    CASE content_type = "twitter" ->
            {"text", "raw_text", "author", "author_name", "title", "type", "created_at",
             "likes", "retweets", "media", "is_note_tweet"}
      [] content_type = "github" ->
            {"text", "owner", "repo", "title", "description", "stars", "forks",
             "language", "license", "topics", "homepage", "is_archived", "is_fork",
             "created_at", "updated_at", "pushed_at", "readme"}
      [] content_type = "gist" ->
            {"text", "gist_id", "owner", "title", "description", "public", "files",
             "file_count", "comments", "content", "created_at", "updated_at"}
      [] content_type = "youtube" ->
            {"text", "transcript_text", "title", "author", "author_url", "thumbnail_url",
             "video_id", "has_transcript", "transcript_language", "transcript_error",
             "duration_seconds", "segments_count"}
      [] content_type = "reddit" ->
            {"text", "selftext", "title", "author", "subreddit", "score", "upvote_ratio",
             "num_comments", "created_at", "is_self", "external_url", "post_id",
             "comments_count", "comments", "metadata"}
      [] OTHER ->
            {"text", "title", "author", "date", "description", "sitename", "text_length"}

\* What _fetch_impl returns: a dict whose success entry is true, with or
\* without the _do_not_cache flag, or a dict whose success entry is false
\* or missing, with or without an error entry.
RawResults ==
    { [success |-> TRUE, text |-> "content"],
      [success |-> TRUE, text |-> "content", _do_not_cache |-> TRUE],
      [success |-> FALSE, error |-> "Request timeout"],
      [success |-> FALSE, status_code |-> 404],
      [error |-> "Could not extract owner/repo from URL"] }

\* The redirect markers the Twitter strategy returns for a post that only
\* shares a t.co link (twitter/fetcher.py lines 198-227): to another post,
\* flagged _do_not_cache, or to an external URL.
RedirectMarkerResults ==
    { [success |-> TRUE, redirect |-> TRUE,
       resolved_url |-> Url("https", NameHost(<<"x", "com">>)), _do_not_cache |-> TRUE],
      [success |-> TRUE, redirect |-> TRUE,
       resolved_url |-> Url("https", NameHost(<<"example", "com">>))] }

\* What the strategy for content_type may return from _fetch_impl.
_fetch_impl(content_type) ==
    RawResults \cup (IF content_type = "twitter" THEN RedirectMarkerResults ELSE {})

\* What cache.get returns on a hit, with the flag line 194 sets.
CachedResult == [success |-> TRUE, text |-> "content", _from_cache |-> TRUE]

\* A mutant of FailureEnvelope: a raw result without an error entry gives
\* an empty error.
FailureEnvelopeSilent(content_type, url, raw_result) ==
    Envelope(content_type, url, Get(raw_result, "error", ""))

\* base.py lines 206-213.
FailureEnvelope(content_type, url, raw_result) ==
    Envelope(content_type, url, Get(raw_result, "error", "Unknown error"))

\* base.py lines 195-201 and 220-226.
SuccessEnvelope(content_type, url, raw_result) ==
    [success |-> TRUE, content_type |-> content_type, url |-> url,
     data |-> _transform_data(content_type), raw |-> raw_result]

\* One run of BaseFetcher.fetch(url) that finds no usable entry in cache
\* (lines 204-226): the envelope, the cache it leaves and what became of
\* the result.  cache.set stores the entry (stored) or refuses it, as it
\* does for a disabled cache or an entry over the size cap.
FetchMiss(content_type, url, cache) ==
    { IF ~Get(raw_result, "success", FALSE)
      THEN [result |-> FailureEnvelope(content_type, url, raw_result), cache |-> cache,
            disposition |-> "failed"]
      ELSE IF Get(raw_result, "_do_not_cache", FALSE)
      THEN [result |-> SuccessEnvelope(content_type, url, raw_result), cache |-> cache,
            disposition |-> "not_cacheable"]
      ELSE IF stored
      THEN [result |-> SuccessEnvelope(content_type, url, raw_result),
            cache |-> cache \cup {cache_key(url)}, disposition |-> "stored"]
      ELSE [result |-> SuccessEnvelope(content_type, url, raw_result), cache |-> cache,
            disposition |-> "refused"] :
      raw_result \in _fetch_impl(content_type), stored \in BOOLEAN }

\* The runs of a platform strategy (BaseFetcher.fetch, lines 187-226) on
\* url: a hit on the entry under the key of url, or a miss, where
\* cache.get removed an expired entry or left the cache alone.
StrategyResults(content_type, url, cache) ==
    IF cache_key(url) \in cache
    THEN { [result |-> SuccessEnvelope(content_type, url, CachedResult), cache |-> cache,
            disposition |-> "hit"] }
         \cup FetchMiss(content_type, url, cache \ {cache_key(url)})
         \cup FetchMiss(content_type, url, cache)
    ELSE FetchMiss(content_type, url, cache)

\* The URLs a redirect marker may name.
RerouteTargets ==
    { Url("https", NameHost(<<"x", "com">>)), Url("https", NameHost(<<"t", "co">>)),
      [Url("", NoHost) EXCEPT !.ws = TRUE], Url("", NoHost) }

\* The runs of a strategy that answers with a redirect marker: a dict with
\* a true redirect entry and a resolved_url entry (scraper.py line 146).
RedirectMarkers(content_type, url, cache) ==
    { [result |-> [success |-> TRUE, content_type |-> content_type, url |-> url,
                   redirect |-> TRUE, resolved_url |-> target],
       cache |-> cache, disposition |-> "marker"] : target \in RerouteTargets }

PipeStart(cache) ==
    /\ pCache = cache
    /\ pStored = "none"
    /\ pAgain = 0

PipeIdle == PipeStart({})

(***************************************************************************)
(* The reply-chain walk of fetch_thread_reconstruction (threads.py lines   *)
(* 147-212), one loop iteration at a time.  The posts are 1 (the one asked *)
(* for) to MaxPosts; post i replies to post i + 1 along the chain.         *)
(***************************************************************************)
MaxPosts == 22

WalkIds == 1..MaxPosts

\* A mutant of WalkOn: the length of the list is not looked at.
WalkOnUncapped(current_id, tweets) == current_id # NoPost

\* Line 149: `while current_id and len(tweets) < max_depth`.
WalkOn(current_id, tweets) == current_id # NoPost /\ Len(tweets) < max_depth

\* Lines 159-176: what ends the walk at a fetched post: the fetch failed
\* or the post is by another author.
WalkBreaks(post, thread_author) ==
    \/ ~post.ok
    \/ handle_lower(post.author) # handle_lower(thread_author)

\* A reply graph: a chain of len posts by "@u" (post 2 spelled "@U" when
\* upper), whose last post replies to nothing ("root"), to itself ("self")
\* or to post 1 ("first"), and whose post at (if any) fails to load or is
\* by another author.
ReplyChain(len, end, at, how, upper) ==
    [p \in WalkIds |->
        IF p > len THEN Post(FALSE, "", NoPost)
        ELSE Post(~(p = at /\ how = "failed"),
                  IF p = at /\ how = "other_author" THEN "@v"
                  ELSE IF p = 2 /\ upper THEN "@U" ELSE "@u",
                  IF p < len THEN p + 1
                  ELSE IF end = "root" THEN NoPost
                  ELSE IF end = "self" THEN p ELSE 1)]

ReplyChains ==
    { ReplyChain(len, end, at, how, upper) :
        len \in {1, 2, 3, 19, 20, 21, 22}, end \in {"root", "self", "first"},
        at \in {0, 1, 2, 3, 20}, how \in {"failed", "other_author"}, upper \in BOOLEAN }

WalkStart(posts, thread_author, current_id, at) ==
    /\ yPosts = posts
    /\ yAuthor = thread_author
    /\ yCurrent = current_id
    /\ yTweets = <<>>
    /\ ySeen = {}
    /\ yFetches = 0
    /\ yPc = at
    /\ yOut = NoTweet

WalkIdle == WalkStart([p \in WalkIds |-> Post(FALSE, "", NoPost)], "", NoPost, "idle")

(***************************************************************************)
(* extract_comments (fetchers/reddit.py lines 182-229).  An item of a      *)
(* listing has a kind and the children of its replies listing (<<>> when   *)
(* replies is no dict).                                                    *)
(***************************************************************************)
max_comments == 15
reddit_max_depth == 2

\* The widest, deepest and longest listings of the model.
MaxWidth == 4
MaxDeep == 3
MaxListing == 17

Item(kind, children) == [kind |-> kind, children |-> children]

\* What extract_comment returns: None, or the comment dict with its depth
\* and its replies; kind is the kind of the item it was made from.
NoComment == [kind |-> "none", depth |-> 0, replies |-> <<>>]
Comment(kind, depth, replies) == [kind |-> kind, depth |-> depth, replies |-> replies]

\* The elements of s that are not None, in order.
RECURSIVE Kept(_)
Kept(s) ==
    IF s = <<>> THEN <<>>
    ELSE IF s[1] = NoComment THEN Kept(Tail(s))
    ELSE <<s[1]>> \o Kept(Tail(s))

\* A mutant of FirstReplies: every child is looked at.
FirstRepliesAll(children) == children

\* Line 212: children[:3].
FirstReplies(children) == SubSeq(children, 1, IF Len(children) < 3 THEN Len(children) ELSE 3)

\* Lines 190-219: extract_comment(item, depth).
RECURSIVE extract_comment(_, _)
extract_comment(item, depth) ==
    IF item.kind # "t1" THEN NoComment
    ELSE Comment(item.kind, depth,
                 IF depth < reddit_max_depth
                 THEN Kept([i \in 1..Len(FirstReplies(item.children)) |->
                               extract_comment(FirstReplies(item.children)[i], depth + 1)])
                 ELSE <<>>)

\* Lines 222-229: the loop over the listing, from item i on, with the
\* comments collected so far.
RECURSIVE collect(_, _, _)
collect(comments_data, i, comments) ==
    IF i > Len(comments_data) \/ Len(comments) >= max_comments THEN comments
    ELSE LET comment == extract_comment(comments_data[i], 0)
         IN collect(comments_data, i + 1,
                    IF comment = NoComment THEN comments ELSE Append(comments, comment))

extract_comments(comments_data) == collect(comments_data, 1, <<>>)

\* The kind of the k-th item of a sequence under a pattern: all comments,
\* every second one a "more" stub, or only stubs.
KindAt(pattern, k) ==
    IF pattern = "comments" THEN "t1"
    ELSE IF pattern = "mixed" THEN (IF k % 2 = 0 THEN "more" ELSE "t1")
    ELSE "more"

\* The item at the head of a reply tree that is deep levels deep and width
\* items wide at every level.
RECURSIVE ReplyTree(_, _, _, _)
ReplyTree(kind, deep, width, pattern) ==
    Item(kind, IF deep = 0 THEN <<>>
               ELSE [k \in 1..width |-> ReplyTree(KindAt(pattern, k), deep - 1, width, pattern)])

Listings35 ==
    { [k \in 1..n |-> ReplyTree(KindAt(top, k), deep, width, pattern)] :
        n \in {0, 1, 14, 15, 16, MaxListing}, top \in {"comments", "mixed", "stubs"},
        deep \in 0..MaxDeep, width \in 1..MaxWidth, pattern \in {"comments", "mixed"} }

ExtractStart(listing, at) ==
    /\ eIn = listing
    /\ eOut = <<>>
    /\ ePc = at

ExtractIdle == ExtractStart(<<>>, "idle")

(***************************************************************************)
(* ContentCache.set of one URL by two ContentCache instances on one cache  *)
(* directory (content_cache.py lines 299-308, 423-473).  Each instance has *)
(* its own _lock, so the two calls do not exclude each other.  The         *)
(* directory maps the names of the entry file and of its temporary file to *)
(* files; a file is the sequence of its blocks.  The directory holds this  *)
(* URL's entry alone and is within its limits, so _enforce_limits removes  *)
(* nothing.                                                                *)
(***************************************************************************)
Writers == {"a", "b"}
MaxBlocks == 2
MaxFiles == 3
NoInode == 0

\* A block of the JSON text of a writer's entry, and the block that reads
\* back as zero bytes where nothing was written.
Block(writer, k) == [of |-> writer, block |-> k]
Hole == Block("nobody", 0)

\* json.dumps(entry.to_dict()) of a writer, blocks blocks long.
EntryJson(writer, blocks) == [k \in 1..blocks |-> Block(writer, k)]

\* The entry that an earlier set left in the directory.
OldEntry == EntryJson("earlier", 1)

\* entry_path.with_suffix(".tmp"), line 453: the name of the temporary file
\* is made from the key alone.
tmp_path(writer) == "tmp"

\* open(path, "w"): the file of that name, emptied, or a new one.
OpenTruncate(names, data, next, name) ==
    IF names[name] # NoInode
    THEN [names |-> names, data |-> [data EXCEPT ![names[name]] = <<>>],
          next |-> next, fd |-> names[name]]
    ELSE [names |-> [names EXCEPT ![name] = next],
          data |-> [data EXCEPT ![next] = <<>>], next |-> next + 1, fd |-> next]

\* write(fd, block) at the descriptor's offset.
WriteAt(content, offset, block) ==
    IF offset < Len(content) THEN [content EXCEPT ![offset + 1] = block]
    ELSE content \o [k \in 1..(offset - Len(content)) |-> Hole] \o <<block>>

SharedStart(entry, blocks) ==
    /\ qNames = [tmp |-> NoInode, entry |-> entry]
    /\ qData = [f \in 1..MaxFiles |-> IF f = entry THEN OldEntry ELSE <<>>]
    /\ qNext = IF entry = NoInode THEN 1 ELSE 2
    /\ qPc = [w \in Writers |-> "open"]
    /\ qFd = [w \in Writers |-> NoInode]
    /\ qOff = [w \in Writers |-> 0]
    /\ qLen = blocks
    /\ qRet = [w \in Writers |-> "none"]

SharedIdle ==
    /\ SharedStart(NoInode, [w \in Writers |-> 1])

(***************************************************************************)
(* The HTTP requests of safe_fetch (fetch_base.py lines 82-100) and of     *)
(* resolve_redirects (resolve_redirects.py lines 113-169) with the         *)
(* redirects their clients follow: requests.get is called without          *)
(* allow_redirects, which requests takes as True, and the httpx client is  *)
(* built with follow_redirects=True.  A route is the sequence of Location  *)
(* targets the servers answer with; it is shorter than either client's     *)
(* redirect limit.                                                         *)
(***************************************************************************)
MaxRoute == 2

HopEntries == {"safe_fetch", "resolve_redirects"}

HopUrls ==
    { Url("https", NameHost(<<"example", "com">>)),
      Url("https", NameHost(<<"t", "co">>)),
      Url("http", IpHost(PrivateAddr)),
      Url("https", NameHost(<<"localhost">>)) }

\* Where a server may redirect to: a public site, a private address, a
\* blocked name.
HopTargets ==
    { Url("https", NameHost(<<"example", "com">>)),
      Url("http", IpHost(PrivateAddr)),
      Url("https", NameHost(<<"localhost">>)) }

Routes == UNION { [1..n -> HopTargets] : n \in 0..MaxRoute }

\* The resolver's answer for a host, the same at every lookup.
HopDns(host) == DnsOk(<<PublicAddr>>)

\* A request as it leaves: its URL, and whether that URL had passed the
\* SSRF validation by then.
Sent(url, passed) == [url |-> url, vetted |-> url \in passed]

\* fetch_base.py lines 95-100 and resolve_redirects.py lines 140-146: the
\* client follows the redirect it is answered with.
FollowsRedirects(route) == route # <<>>

HopStart(who, url, route, at) ==
    /\ jWho = who
    /\ jUrl = url
    /\ jRoute = route
    /\ jAt = url
    /\ jSent = <<>>
    /\ jPassed = {}
    /\ jPc = at
    /\ jOut = "none"

HopIdle == HopStart("safe_fetch", Url("", NoHost), <<>>, "idle")

(***************************************************************************)
(* Idle values: a specification leaves the components it does not run at   *)
(* these.                                                                  *)
(***************************************************************************)
SsrfIdle ==
    /\ vUrl = Url("", NoHost)
    /\ vDns = DnsFail("gaierror")
    /\ vPc = "idle"
    /\ vResult = Verdict(FALSE, "unset")
    /\ vStrict = [raised |-> FALSE, error |-> "unset", value |-> Url("", NoHost)]

RetryStart(who, at, c) ==
    /\ caller = who
    /\ pc = at
    /\ cfg = c
    /\ attempt = 0
    /\ calls = 0
    /\ sleeps = <<>>
    /\ bases = <<>>
    /\ hist = <<>>
    /\ outcome = NoOutcome

NoRequest ==
    [url |-> Url("", NoHost), retry |-> FALSE, max_retries |-> 0, max_size |-> 0]

FetchStart(r) ==
    /\ req = r
    /\ vetted = DnsFail("unset")
    /\ connected = {}
    /\ resp = NoResp
    /\ chunksRead = 0
    /\ result = NoDict

RetryIdle == RetryStart("none", "idle", RetryConfig(0, 0, 0, 0, 0))
FetchIdle == FetchStart(NoRequest)

NoUrl == Url("", NoHost)

Resolved(success, original_url, resolved_url, was_shortened, redirects_followed, error) ==
    [success |-> success, original_url |-> original_url, resolved_url |-> resolved_url,
     was_shortened |-> was_shortened, redirects_followed |-> redirects_followed,
     error |-> error]

NoResolved == Resolved(FALSE, NoUrl, NoUrl, FALSE, 0, "unset")

HeadOk(final, hops) == [kind |-> "ok", final |-> final, hops |-> hops]
HeadFails(kind) == [kind |-> kind, final |-> NoUrl, hops |-> 0]
NoHead == HeadFails("none")

ScrapeStart(u, d, at) ==
    /\ sUrl = u
    /\ sDepth = d
    /\ sPc = at
    /\ sHead = NoHead
    /\ sDns = DnsFail("unset")
    /\ sResolved = NoResolved
    /\ sHeads = 0
    /\ sStrategies = <<>>
    /\ sOut = NoEnvelope

ScrapeIdle == ScrapeStart(NoUrl, 0, "idle")

AuxIdle == VaultIdle /\ FetchLockIdle /\ DetectIdle /\ ThreadIdle /\ SanitizeIdle /\ PipeIdle /\ WalkIdle /\ ExtractIdle /\ SharedIdle /\ HopIdle
NoKeys == [a |-> <<>>, b |-> <<>>]
KeyIdle ==
    /\ kUrls = [a |-> Aliased(<<>>, ""), b |-> Aliased(<<>>, "")]
    /\ kKeys = NoKeys
    /\ kTable = KnownKeys

CacheStart(config, c) ==
    /\ cCfg = config
    /\ cDir = c.dir
    /\ cTmp = c.tmp
    /\ cNow = c.now
    /\ cOp = c.op
    /\ cPrev = c.prev
    /\ cRun = c.run
    /\ cOps = 0

CacheIdle == CacheStart(CacheConfig(FALSE, 0, 0, 0, 0), Cold)

FetcherIdle == fOut = NoFetch /\ fCall = NoFetchCall

LockIdle ==
    /\ gCache = NoCache
    /\ nInst = 0
    /\ instLock = [i \in 1..MaxInstances |-> NoThread]
    /\ tPc = [t \in Threads |-> "idle"]
    /\ tCache = [t \in Threads |-> NoCache]
    /\ tOp = [t \in Threads |-> ""]

StoreIdle == KeyIdle /\ CacheIdle /\ FetcherIdle /\ LockIdle /\ AuxIdle

(***************************************************************************)
(* SpecSSRF: the validator applied to one URL under one resolver answer.   *)
(***************************************************************************)
InitSSRF ==
    /\ vUrl \in UrlSamples
    /\ vDns \in DnsSamples
    /\ vPc = "input"
    /\ vResult = Verdict(FALSE, "unset")
    /\ vStrict = [raised |-> FALSE, error |-> "unset", value |-> Url("", NoHost)]
    /\ RetryIdle
    /\ FetchIdle
    /\ ScrapeIdle
    /\ StoreIdle

Validate ==
    /\ vPc = "input"
    /\ vResult' = validate_url_ssrf(vUrl, vDns, TRUE)
    /\ vStrict' = validate_url_ssrf_strict(vUrl, vDns, TRUE)
    /\ vPc' = "validated"
    /\ UNCHANGED <<vUrl, vDns, retryVars, fetchVars, scrapeVars, storeVars>>

ValidateNoResolve ==
    /\ vPc = "input"
    /\ vResult' = validate_url_ssrf(vUrl, vDns, FALSE)
    /\ vStrict' = validate_url_ssrf_strict(vUrl, vDns, FALSE)
    /\ vPc' = "validated_literal"
    /\ UNCHANGED <<vUrl, vDns, retryVars, fetchVars, scrapeVars, storeVars>>

NextSSRF == Validate \/ ValidateNoResolve

SpecSSRF == InitSSRF /\ [][NextSSRF]_vars

(***************************************************************************)
(* Spec: one call of retry_call on an arbitrary operation, or one call of  *)
(* safe_fetch, against every behaviour of the operation, the resolver and  *)
(* the server.                                                             *)
(***************************************************************************)
Init ==
    /\ SsrfIdle
    /\ ScrapeIdle
    /\ StoreIdle
    /\ \/ /\ \E c \in RetryConfigs : RetryStart("retry_call", "loop", c)
          /\ FetchIdle
       \/ \E r \in FetchRequests :
            /\ FetchStart(r)
            /\ RetryStart("safe_fetch", "start",
                          RetryConfig(r.max_retries, DEFAULT_INITIAL_DELAY, DEFAULT_MULTIPLIER,
                                      DEFAULT_MAX_DELAY, DEFAULT_JITTER_RANGE))

\* retry_call invokes the operation once more (lines 241-286).
RetryCallOperation ==
    /\ caller = "retry_call"
    /\ pc = "loop"
    /\ \E o \in OperationOutcomes : RetryIteration(o, "done")
    /\ UNCHANGED <<ssrfVars, fetchVars, scrapeVars, storeVars>>

\* retry_call's loop runs out (lines 288-291).
RetryLoopEnd ==
    /\ pc = "loop"
    /\ ~InRange(attempt, cfg)
    /\ outcome' = LoopEndOutcome
    /\ pc' = "done"
    /\ result' = IF caller = "safe_fetch" THEN SafeFetchResult(LoopEndOutcome) ELSE result
    /\ UNCHANGED <<ssrfVars, scrapeVars, storeVars, caller, cfg, attempt, calls, sleeps, bases, hist,
                   req, vetted, connected, resp, chunksRead>>

\* A mutant of SsrfGate: the gate lets every URL through.
SsrfGateOpen(url, dns) == [raised |-> FALSE, error |-> "", value |-> Strip(url)]

\* Lines 83-86: safe_fetch's SSRF check of its url.
SsrfGate(url, dns) == validate_url_ssrf_strict(url, dns, TRUE)

\* safe_fetch up to its first request: the SSRF check, then the choice
\* between retry_call(_do_fetch) and a bare _do_fetch().
SafeFetchValidate ==
    /\ caller = "safe_fetch"
    /\ pc = "start"
    /\ \E dns \in FetchDnsSamples :
        /\ vetted' = AddrInfo(req.url.host, dns)
        /\ IF SsrfGate(req.url, dns).raised
           THEN /\ result' = Dict(FALSE, NoStatus, 0, "SSRF protection")
                /\ pc' = "done"
           ELSE /\ result' = result
                /\ pc' = IF req.retry THEN "loop" ELSE "direct"
    /\ UNCHANGED <<ssrfVars, scrapeVars, storeVars, caller, cfg, attempt, calls, sleeps, bases, hist,
                   outcome, req, connected, resp, chunksRead>>

\* One requests.get of _do_fetch: the HTTP client resolves the host anew
\* and connects to one of the addresses; the server answers, or the
\* connection fails.  `info` is the client's resolution, `a` the address it
\* connects to, `sv` what the network then does.
Request(info, a, sv) ==
    IF info.status # "ok"
    THEN [o |-> Exc("requests.ConnectionError", NoStatus), read |-> 0,
          resp |-> NoResp, to |-> {}]
    ELSE IF sv.conn = "refused"
    THEN [o |-> Exc("requests.ConnectionError", NoStatus), read |-> 0,
          resp |-> NoResp, to |-> {a}]
    ELSE IF sv.conn = "timeout"
    THEN [o |-> Exc("requests.Timeout", NoStatus), read |-> 0, resp |-> NoResp, to |-> {a}]
    ELSE LET f == do_fetch(sv.resp, req.max_size)
         IN [o |-> f.o, read |-> f.read, resp |-> sv.resp, to |-> {a}]

\* safe_fetch sends one request: an iteration of retry_call(_do_fetch), or
\* the bare _do_fetch() of retry = False; with the last one safe_fetch
\* returns.
DoFetch ==
    /\ caller = "safe_fetch"
    /\ pc \in {"loop", "direct"}
    /\ \E dns \in FetchDnsSamples, sv \in ServerSamples :
        LET info == AddrInfo(req.url.host, dns)
        IN \E i \in 1..Max(1, Len(info.addrs)) :
            LET q == Request(info, IF info.status = "ok" THEN info.addrs[i] ELSE NoIp, sv)
            IN /\ connected' = connected \cup q.to
               /\ resp' = q.resp
               /\ chunksRead' = q.read
               /\ IF pc = "loop"
                  THEN RetryIteration(q.o, "done")
                  ELSE /\ calls' = calls + 1
                       /\ hist' = Append(hist, q.o)
                       /\ outcome' = q.o
                       /\ pc' = "done"
                       /\ UNCHANGED <<caller, cfg, attempt, sleeps, bases>>
    /\ result' = IF pc' = "done" THEN SafeFetchResult(outcome') ELSE result
    /\ UNCHANGED <<ssrfVars, scrapeVars, req, vetted, storeVars>>

Next == RetryCallOperation \/ RetryLoopEnd \/ SafeFetchValidate \/ DoFetch

Spec == Init /\ [][Next]_vars

(***************************************************************************)
(* resolve_redirects (_shared/resolve_redirects.py), detect_url_type       *)
(* (utils/url_detector.py) and scrape_content (scraper.py).                *)
(***************************************************************************)
DEFAULT_SHORTENERS ==
    { <<"t", "co">>, <<"bit", "ly">>, <<"tinyurl", "com">>, <<"goo", "gl">>,
      <<"ow", "ly">>, <<"is", "gd">>, <<"buff", "ly">>, <<"j", "mp">>, <<"rb", "gy">>,
      <<"cutt", "ly">>, <<"youtu", "be">>, <<"redd", "it">>, <<"fb", "me">>,
      <<"lnkd", "in">>, <<"amzn", "to">>, <<"amzn", "eu">>, <<"shorturl", "at">>,
      <<"trib", "al">>, <<"dlvr", "it">>, <<"spr", "ly">>, <<"soo", "gd">>,
      <<"s", "id">>, <<"rebrand", "ly">>, <<"tiny", "cc">>, <<"v", "gd">>,
      <<"shortlink", "com">> }

DEFAULT_MAX_REDIRECTS == 10
max_redirect_depth == 3

IsEmptyUrl(url) ==
    /\ url.scheme = ""
    /\ url.host.kind = "none"
    /\ ~url.ws
    /\ url.path = <<>>
    /\ url.query = <<>>

\* parsed.netloc.lower() without a leading "www.": the text compared with
\* the shortener domains.  A netloc with userinfo or a port is no bare
\* domain and matches none (NoDomain).
NoDomain == <<>>

Domain(url) ==
    IF url.host.kind # "name" \/ url.userinfo \/ url.port THEN NoDomain
    ELSE LET h == LowerAll(url.host.labels)
         IN IF Len(h) > 1 /\ h[1] = "www" THEN Tail(h) ELSE h

is_shortener(url) == Domain(url) \in DEFAULT_SHORTENERS

\* A mutant of ResolvedIsSafe: the resolved URL is trusted unchecked
\* (validate_final = False).
ResolvedIsSafeUnchecked(final, dns) == TRUE

\* Lines 153-155: the SSRF validation of the resolved URL.
ResolvedIsSafe(final, dns) == validate_url_ssrf(final, dns, TRUE).ok

\* resolve_redirects(url) when the HEAD request, if one is sent, meets
\* `head` and the resolver answers `dns` for the resolved host.
resolve_redirects(url, head, dns) ==
    IF IsEmptyUrl(url) THEN Resolved(FALSE, url, url, FALSE, 0, "Invalid URL provided")
    ELSE LET u == Strip(url)
         IN IF ~is_shortener(u) THEN Resolved(TRUE, u, u, FALSE, 0, "")
            ELSE IF head.kind = "ok"
            THEN IF ~ResolvedIsSafe(head.final, dns)
                 THEN Resolved(FALSE, u, head.final, TRUE, head.hops,
                               "Resolved URL failed security validation")
                 ELSE Resolved(TRUE, u, head.final, TRUE, head.hops, "")
            ELSE IF head.kind = "too_many_redirects"
            THEN Resolved(FALSE, u, u, TRUE, DEFAULT_MAX_REDIRECTS, "Too many redirects")
            ELSE Resolved(FALSE, u, u, TRUE, 0, head.kind)

\* Substring tests of url.lower() against a dotted needle.  A needle lies
\* within one dotted word of the URL (the host, the path word, the query
\* word): its first label ends some label, its middle labels follow
\* whole, its last label starts the next one.
EndsWith(s, t) == s = t \/ <<s, t>> \in { <<"netflix", "x">>, <<"notgithub", "github">> }
StartsWith(s, t) == s = t \/ <<s, t>> \in { <<"community", "com">>, <<"itch", "it">> }

WordContains(word, needle) ==
    LET h == LowerAll(word)
        k == Len(needle)
    IN \E i \in 1..(Len(h) - k + 1) :
        /\ EndsWith(h[i], needle[1])
        /\ \A j \in 2..(k - 1) : h[i + j - 1] = needle[j]
        /\ StartsWith(h[i + k - 1], needle[k])

\* The test `needle in host`, which looks at the host alone.
HostContains(url, needle) == WordContains(url.host.labels, needle)

\* Lines 35-46: `needle in url_lower`, which looks at the whole URL.
Contains(url, needle) ==
    \/ WordContains(url.host.labels, needle)
    \/ WordContains(url.path, needle)
    \/ WordContains(url.query, needle)

_is_valid_webpage_url(url) ==
    /\ url.scheme \in {"http", "https"}
    /\ url.host.kind # "none"
    /\ \/ url.host.kind = "name" /\ Len(url.host.labels) > 1
       \/ url.host.kind = "ip" /\ url.host.ip.v = 4

detect_url_type(url) ==
    IF IsEmptyUrl(url) THEN "unknown"
    ELSE IF Contains(url, <<"x", "com">>) \/ Contains(url, <<"twitter", "com">>)
    THEN "twitter"
    ELSE IF Contains(url, <<"gist", "github", "com">>) THEN "gist"
    ELSE IF Contains(url, <<"github", "com">>) THEN "github"
    ELSE IF Contains(url, <<"youtube", "com">>) \/ Contains(url, <<"youtu", "be">>)
    THEN "youtube"
    ELSE IF Contains(url, <<"reddit", "com">>) \/ Contains(url, <<"redd", "it">>)
    THEN "reddit"
    ELSE IF _is_valid_webpage_url(url) THEN "webpage"
    ELSE "unknown"

ScrapeUrls ==
    { Url("https", NameHost(n)) :
        n \in { <<"t", "co">>, <<"www", "bit", "ly">>, <<"youtu", "be">>, <<"x", "com">>,
                <<"github", "com">>, <<"gist", "github", "com">>, <<"example", "com">>,
                <<"www", "netflix", "com">>, <<"localhost">> } }
    \cup { [Url("https", NameHost(<<"t", "co">>)) EXCEPT !.ws = TRUE],
           [Url("https", NameHost(<<"t", "co">>)) EXCEPT !.port = TRUE],
           Url("http", IpHost(PublicAddr)), Url("ftp", NameHost(<<"example", "org">>)),
           NoUrl }

HeadSamples ==
    { HeadOk(Url("https", NameHost(n)), 1) :
        n \in { <<"example", "com">>, <<"x", "com">>, <<"localhost">>, <<"db", "corp">>,
                <<"rebind", "attacker", "net">> } }
    \cup { HeadOk(Url("http", IpHost(PrivateAddr)), 2),
           HeadOk(Url("http", IpHost(Ip4(169, 254, 169, 254))), 1),
           HeadOk(Url("http", IpHost(PublicAddr)), 1),
           HeadFails("too_many_redirects"), HeadFails("timeout"),
           HeadFails("request_error"), HeadFails("unexpected_error") }

InitScrape ==
    /\ SsrfIdle
    /\ RetryIdle
    /\ FetchIdle
    /\ StoreIdle
    /\ \E u \in ScrapeUrls, d \in 0..max_redirect_depth : ScrapeStart(u, d, "call")

\* The envelope for a call that ends before any routing (lines 88-93,
\* 98-103 and 112-117).
Refusal(url, error) == Envelope("unknown", url, error)

\* A mutant of DepthExceeded: the call at the cap still goes on.
DepthExceededLate(depth) == depth > max_redirect_depth

\* Line 96.
DepthExceeded(depth) == depth >= max_redirect_depth

\* Lines 121-154: classify url, run the strategy (its run is run), and
\* return its envelope or re-route on a redirect marker.
Route(url, original, run) ==
    LET content_type == detect_url_type(url)
        res == run.result
    IN IF content_type = "unknown"
       THEN /\ sOut' = Put(Envelope("unknown", original, "Unsupported URL type"),
                           "resolved_url", IF url # original THEN url ELSE NoUrl)
            /\ sPc' = "done"
            /\ UNCHANGED <<sUrl, sDepth, sStrategies, pCache, pStored>>
       ELSE /\ sStrategies' = Append(sStrategies, [type |-> content_type, url |-> url])
            /\ pCache' = run.cache
            /\ pStored' = run.disposition
            /\ IF Get(res, "redirect", FALSE)
                  /\ ~IsEmptyUrl(Get(res, "resolved_url", NoUrl))
               THEN /\ sUrl' = res.resolved_url
                    /\ sDepth' = sDepth + 1
                    /\ UNCHANGED <<sPc, sOut>>
               ELSE /\ sOut' = IF url # original THEN Put(res, "resolved_url", url)
                               ELSE res
                    /\ sPc' = "done"
                    /\ UNCHANGED <<sUrl, sDepth>>

\* The runs the strategy for url may make: those of BaseFetcher.fetch, and
\* with markers also the runs that answer with a redirect marker.
Runs(markers, url, cache) ==
    StrategyResults(detect_url_type(url), url, cache)
    \cup (IF markers THEN RedirectMarkers(detect_url_type(url), url, cache) ELSE {})

\* One call of scrape_content(sUrl, sDepth), up to its return or to its
\* recursive call.
ScrapeCall(markers) ==
    /\ sPc = "call"
    /\ \E head \in HeadSamples, dns \in FetchDnsSamples :
        LET original == Strip(sUrl)
            r == resolve_redirects(original, head, dns)
            url == IF r.was_shortened THEN r.resolved_url ELSE original
        IN IF IsEmptyUrl(sUrl)
           THEN /\ sOut' = Refusal(sUrl, "Invalid URL provided")
                /\ sPc' = "done"
                /\ UNCHANGED <<sUrl, sDepth, sHead, sDns, sResolved, sHeads, sStrategies,
                               pCache, pStored>>
           ELSE IF DepthExceeded(sDepth)
           THEN /\ sOut' = Refusal(sUrl, "Too many redirects")
                /\ sPc' = "done"
                /\ UNCHANGED <<sUrl, sDepth, sHead, sDns, sResolved, sHeads, sStrategies,
                               pCache, pStored>>
           ELSE IF is_shortener(original)
           THEN /\ sHead' = head
                /\ sDns' = dns
                /\ sResolved' = r
                /\ sHeads' = sHeads + 1
                /\ IF ~r.success
                   THEN /\ sOut' = Refusal(original, "Failed to resolve shortened URL")
                        /\ sPc' = "done"
                        /\ UNCHANGED <<sUrl, sDepth, sStrategies, pCache, pStored>>
                   ELSE \E run \in Runs(markers, url, pCache) : Route(url, original, run)
           ELSE /\ UNCHANGED <<sHead, sDns, sResolved, sHeads>>
                /\ \E run \in Runs(markers, original, pCache) :
                        Route(original, original, run)
    /\ UNCHANGED <<ssrfVars, retryVars, fetchVars, keyVars, cacheVars, fetcherVars, lockVars, pAgain, vaultVars, flockVars, detectVars, threadVars, sanitizeVars, walkVars, extractVars, sharedVars, hopVars>>

\* scrape_content with the strategies of the repository.
ScrapeContent == ScrapeCall(FALSE)

\* The caller calls scrape_content once more; the cache keeps its entries.
ScrapeAgain ==
    /\ sPc = "done"
    /\ pAgain < MaxAgain
    /\ \E u \in ScrapeUrls :
        /\ sUrl' = u
        /\ sDepth' = 0
        /\ sPc' = "call"
        /\ sHead' = NoHead
        /\ sDns' = DnsFail("unset")
        /\ sResolved' = NoResolved
        /\ sHeads' = 0
        /\ sStrategies' = <<>>
        /\ sOut' = NoEnvelope
    /\ pAgain' = pAgain + 1
    /\ pStored' = "none"
    /\ UNCHANGED <<pCache, ssrfVars, retryVars, fetchVars, keyVars, cacheVars, fetcherVars, lockVars, vaultVars, flockVars, detectVars, threadVars, sanitizeVars, walkVars, extractVars, sharedVars, hopVars>>

NextScrape == ScrapeContent \/ ScrapeAgain

SpecScrape == InitScrape /\ [][NextScrape]_vars

(***************************************************************************)
(* SpecKey: _url_to_key on pairs of URL strings.                           *)
(***************************************************************************)
InitKey ==
    /\ SsrfIdle
    /\ AuxIdle
    /\ RetryIdle
    /\ FetchIdle
    /\ ScrapeIdle
    /\ kTable = KnownKeys
    /\ CacheIdle
    /\ FetcherIdle
    /\ LockIdle
    /\ kUrls \in { [a |-> x, b |-> y] : x \in KeySamples, y \in KeySamples }
    /\ kKeys = NoKeys

UrlToKey ==
    /\ kKeys = NoKeys
    /\ kKeys' = [a |-> _url_to_key(kUrls.a.url), b |-> _url_to_key(kUrls.b.url)]
    /\ UNCHANGED <<kUrls, kTable, ssrfVars, retryVars, fetchVars, scrapeVars, auxVars, cacheVars, fetcherVars,
                   lockVars>>

NextKey == UrlToKey

SpecKey == InitKey /\ [][NextKey]_vars

(***************************************************************************)
(* SpecCache: one ContentCache over its directory.  Every action is one    *)
(* call of a public method (made under the instance lock) or a tick of the *)
(* clock.  SpecCacheFaults adds a process that dies inside set and damage  *)
(* done to a file from outside.                                            *)
(***************************************************************************)
InitCache ==
    /\ SsrfIdle
    /\ AuxIdle
    /\ RetryIdle
    /\ FetchIdle
    /\ ScrapeIdle
    /\ KeyIdle
    /\ FetcherIdle
    /\ LockIdle
    /\ \E config \in ConfigSamples : \E c \in WarmStarts(config) : CacheStart(config, c)

CacheFrame == UNCHANGED <<cCfg, ssrfVars, retryVars, fetchVars, scrapeVars, auxVars, keyVars,
                          fetcherVars, lockVars>>

CacheGet ==
    /\ cOps < MaxOps
    /\ \E url \in GetUrls :
          LET res == get(cDir, cCfg, cNow, url)
          IN /\ cDir' = res.dir
             /\ cOp' = Op("get", url, res.data, "", res.hit, res.raised, <<>>,
                          Files(cDir, cTmp), cNow)
    /\ cPrev' = Earlier(cOp)
    /\ cRun' = NoRun
    /\ cOps' = cOps + 1
    /\ UNCHANGED <<cTmp, cNow>>
    /\ CacheFrame

CacheSet ==
    /\ cOps < MaxOps
    /\ \E call \in SetCalls, glob \in Listings(cDir) :
          LET c == SetStep(CacheState(cDir, cTmp, cNow, cOp, cPrev, cRun), cCfg, call, glob)
          IN /\ cDir' = c.dir
             /\ cTmp' = c.tmp
             /\ cOp' = c.op
             /\ cPrev' = c.prev
             /\ cRun' = c.run
    /\ cOps' = cOps + 1
    /\ UNCHANGED cNow
    /\ CacheFrame

SetCrash ==
    /\ cOps < MaxOps
    /\ \E call \in CrashCalls, glob \in Listings(cDir), point \in CrashPoints,
          k \in 0..Cardinality(Present(cDir)) :
          LET files == set_crashed(cDir, cTmp, cCfg, cNow, call.url, call.data,
                                   call.ttl_type, glob, point, k)
          IN /\ point # "enforce" => k = 0
             /\ cDir' = files.dir
             /\ cTmp' = files.tmp
             /\ cOp' = Op(CrashedAt(point), call.url, call.data, call.ttl_type, FALSE,
                          "none", <<>>, Files(cDir, cTmp), cNow)
    /\ cPrev' = Earlier(cOp)
    /\ cRun' = NoRun
    /\ cOps' = cOps + 1
    /\ UNCHANGED cNow
    /\ CacheFrame

CacheInvalidate ==
    /\ cOps < MaxOps
    /\ \E url \in InvalidateUrls :
          LET res == invalidate(cDir, url)
          IN /\ cDir' = res.dir
             /\ cOp' = Op("invalidate", url, NoData, "", res.ret, "none", <<>>,
                          Files(cDir, cTmp), cNow)
    /\ cPrev' = Earlier(cOp)
    /\ cRun' = NoRun
    /\ cOps' = cOps + 1
    /\ UNCHANGED <<cTmp, cNow>>
    /\ CacheFrame

CacheClear ==
    /\ cOps < MaxOps
    /\ cDir' = clear(cDir).dir
    /\ cOp' = Op("clear", "", NoData, "", clear(cDir).ret > 0, "none", <<>>,
                 Files(cDir, cTmp), cNow)
    /\ cPrev' = Earlier(cOp)
    /\ cRun' = NoRun
    /\ cOps' = cOps + 1
    /\ UNCHANGED <<cTmp, cNow>>
    /\ CacheFrame

CacheCleanup ==
    /\ cOps < MaxOps
    /\ \E glob \in Listings(cDir) :
          LET res == cleanup(cDir, cNow, glob)
          IN /\ cDir' = res.dir
             /\ cOp' = Op("cleanup", "", NoData, "", res.removed # <<>>,
                          IF res.raised THEN "UnicodeDecodeError" ELSE "none",
                          res.removed, Files(cDir, cTmp), cNow)
    /\ cPrev' = Earlier(cOp)
    /\ cRun' = NoRun
    /\ cOps' = cOps + 1
    /\ UNCHANGED <<cTmp, cNow>>
    /\ CacheFrame

\* time.time() moves on.
Tick ==
    /\ cNow < MaxClock
    /\ cNow' = cNow + 1
    /\ UNCHANGED <<cDir, cTmp, cOp, cPrev, cRun, cOps, fOut, fCall>>
    /\ UNCHANGED <<cCfg, ssrfVars, retryVars, fetchVars, scrapeVars, auxVars, keyVars, lockVars>>

\* An entry file is damaged from outside the process (a disk error, an
\* interrupted writer of another program).
CacheDamage ==
    /\ cOps < MaxOps
    /\ \E k \in Present(cDir), kind \in DamageKinds :
          /\ cDir[k].kind = "entry"
          /\ cDir' = [cDir EXCEPT ![k] = Damaged(kind)]
    /\ cOp' = Op("damage", "", NoData, "", FALSE, "none", <<>>, Files(cDir, cTmp), cNow)
    /\ cPrev' = Earlier(cOp)
    /\ cRun' = NoRun
    /\ cOps' = cOps + 1
    /\ UNCHANGED <<cTmp, cNow>>
    /\ CacheFrame

NextCache ==
    \/ CacheGet
    \/ CacheSet
    \/ CacheInvalidate
    \/ CacheClear
    \/ CacheCleanup
    \/ Tick

SpecCache == InitCache /\ [][NextCache]_vars

NextCacheFaults ==
    \/ CacheGet
    \/ CacheSet
    \/ SetCrash
    \/ CacheCleanup
    \/ CacheDamage
    \/ Tick

SpecCacheFaults == InitCache /\ [][NextCacheFaults]_vars

(***************************************************************************)
(* SpecFetcher: BaseFetcher.fetch calls on the process's cache.            *)
(***************************************************************************)
InitFetcher ==
    /\ SsrfIdle
    /\ AuxIdle
    /\ RetryIdle
    /\ FetchIdle
    /\ ScrapeIdle
    /\ KeyIdle
    /\ LockIdle
    /\ \E config \in ConfigSamples : CacheStart(config, Cold)
    /\ FetcherIdle

Fetch ==
    /\ cOps < MaxOps
    /\ \E call \in FetchCalls, glob \in Listings(cDir) :
          LET res == fetch(cDir, cTmp, cCfg, cNow, call.content_type, call.url, call.up, glob)
          IN /\ cDir' = res.dir
             /\ cTmp' = res.tmp
             /\ fOut' = res.out
             /\ fCall' = [url |-> call.url, held |-> HoldsUnexpired(cDir, cCfg, cNow, call.url),
                           impl_calls |-> res.impl_calls]
    /\ cOps' = cOps + 1
    /\ UNCHANGED <<cCfg, cNow, cOp, cPrev, cRun>>
    /\ UNCHANGED <<ssrfVars, retryVars, fetchVars, scrapeVars, auxVars, keyVars, lockVars>>

NextFetcher == Fetch \/ Tick \/ CacheDamage

SpecFetcher == InitFetcher /\ [][NextFetcher]_vars

(***************************************************************************)
(* SpecLock: threads that take the process's cache from get_cache() and    *)
(* call its methods, and reset_cache().  The statements made under         *)
(* _global_cache_lock are one step.                                        *)
(***************************************************************************)
InitLock ==
    /\ SsrfIdle
    /\ AuxIdle
    /\ RetryIdle
    /\ FetchIdle
    /\ ScrapeIdle
    /\ KeyIdle
    /\ CacheIdle
    /\ FetcherIdle
    /\ LockIdle

LockFrame == UNCHANGED <<ssrfVars, retryVars, fetchVars, scrapeVars, auxVars, keyVars, cacheVars,
                         fetcherVars>>

\* A thread calls get_cache() to call a method: line 732, the first test.
GetCacheCheck(t) ==
    /\ tPc[t] = "idle"
    /\ \E op \in CacheMethods : tOp' = [tOp EXCEPT ![t] = op]
    /\ tPc' = [tPc EXCEPT ![t] = IF gCache = NoCache THEN "create" ELSE "return"]
    /\ UNCHANGED <<gCache, nInst, instLock, tCache>>
    /\ LockFrame

\* Lines 733-735: under _global_cache_lock, the second test and
\* ContentCache().
GetCacheCreate(t) ==
    /\ tPc[t] = "create"
    /\ IF gCache = NoCache
       THEN /\ nInst' = nInst + 1
            /\ gCache' = nInst + 1
       ELSE UNCHANGED <<gCache, nInst>>
    /\ tPc' = [tPc EXCEPT ![t] = "return"]
    /\ UNCHANGED <<instLock, tCache, tOp>>
    /\ LockFrame

\* Line 736: return _global_cache, as it is now.  A method called on None
\* raises AttributeError.
GetCacheReturn(t) ==
    /\ tPc[t] = "return"
    /\ tCache' = [tCache EXCEPT ![t] = gCache]
    /\ IF gCache = NoCache
       THEN /\ tPc' = [tPc EXCEPT ![t] = "idle"]
            /\ tOp' = [tOp EXCEPT ![t] = "AttributeError"]
       ELSE /\ tPc' = [tPc EXCEPT ![t] = "acquire"]
            /\ UNCHANGED tOp
    /\ UNCHANGED <<gCache, nInst, instLock>>
    /\ LockFrame

\* A thread calls another method on the cache it holds (BaseFetcher.fetch
\* calls cache.get and later cache.set on one get_cache() result).
CallAgain(t) ==
    /\ tPc[t] = "idle"
    /\ tCache[t] # NoCache
    /\ \E op \in CacheMethods : tOp' = [tOp EXCEPT ![t] = op]
    /\ tPc' = [tPc EXCEPT ![t] = "acquire"]
    /\ UNCHANGED <<gCache, nInst, instLock, tCache>>
    /\ LockFrame

\* with self._lock:
Acquire(t) ==
    /\ tPc[t] = "acquire"
    /\ LockFree(instLock, tCache[t])
    /\ instLock' = [instLock EXCEPT ![tCache[t]] = t]
    /\ tPc' = [tPc EXCEPT ![t] = "inside"]
    /\ UNCHANGED <<gCache, nInst, tCache, tOp>>
    /\ LockFrame

\* The file operations of the method end and the lock is released.
Release(t) ==
    /\ tPc[t] = "inside"
    /\ instLock' = [instLock EXCEPT ![tCache[t]] = NoThread]
    /\ tPc' = [tPc EXCEPT ![t] = "idle"]
    /\ UNCHANGED <<gCache, nInst, tCache, tOp>>
    /\ LockFrame

\* Lines 740-748: reset_cache(), called by a thread that is in no cache
\* call.
ResetCache(t) ==
    /\ tPc[t] = "idle"
    /\ nInst < MaxInstances
    /\ gCache' = NoCache
    /\ UNCHANGED <<nInst, instLock, tPc, tCache, tOp>>
    /\ LockFrame

NextLock ==
    \E t \in Threads :
        \/ GetCacheCheck(t)
        \/ GetCacheCreate(t)
        \/ GetCacheReturn(t)
        \/ CallAgain(t)
        \/ Acquire(t)
        \/ Release(t)
        \/ ResetCache(t)

SpecLock == InitLock /\ [][NextLock]_vars

(***************************************************************************)
(* SpecVault: calls of vault_healthy(), step by step, while other          *)
(* programs create, replace and remove vault.db.                           *)
(***************************************************************************)
InitVault ==
    /\ SsrfIdle
    /\ RetryIdle
    /\ FetchIdle
    /\ ScrapeIdle
    /\ KeyIdle
    /\ CacheIdle
    /\ FetcherIdle
    /\ LockIdle
    /\ FetchLockIdle
    /\ DetectIdle
    /\ ThreadIdle
    /\ SanitizeIdle
    /\ PipeIdle
    /\ WalkIdle
    /\ ExtractIdle
    /\ SharedIdle
    /\ HopIdle
    /\ \E db \in DbKinds : VaultStart(db)

VaultFrame == UNCHANGED <<ssrfVars, retryVars, fetchVars, scrapeVars, keyVars, cacheVars,
                          fetcherVars, lockVars, flockVars, detectVars, threadVars, sanitizeVars, pipeVars, walkVars, extractVars, sharedVars, hopVars>>

\* vault_healthy() is called.
VaultCall ==
    /\ hPc \in {"idle", "done"}
    /\ hCalls < MaxVaultCalls
    /\ hPc' = "exists"
    /\ hCalls' = hCalls + 1
    /\ hConn' = "none"
    /\ hPragma' = "none"
    /\ hRet' = "none"
    /\ hSeen' = "none"
    /\ UNCHANGED <<hDb, hOpened, hCloses>>
    /\ VaultFrame

\* Lines 40-42.
VaultExists ==
    /\ hPc = "exists"
    /\ hSeen' = hDb
    /\ IF db_exists(hDb)
       THEN hPc' = "connect" /\ UNCHANGED hRet
       ELSE hPc' = "done" /\ hRet' = "False"
    /\ UNCHANGED <<hDb, hConn, hOpened, hCloses, hPragma, hCalls>>
    /\ VaultFrame

\* Line 44, and lines 50-51 when it raises.
VaultConnect ==
    /\ hPc = "connect"
    /\ IF connect_raises(hDb)
       THEN /\ hPc' = "done"
            /\ hRet' = "False"
            /\ UNCHANGED <<hDb, hConn, hOpened>>
       ELSE /\ hPc' = "execute"
            /\ hConn' = "open"
            /\ hOpened' = hOpened + 1
            /\ hDb' = db_after_connect(hDb)
            /\ UNCHANGED hRet
    /\ UNCHANGED <<hCloses, hPragma, hCalls, hSeen>>
    /\ VaultFrame

\* Line 46.
VaultExecute ==
    /\ hPc = "execute"
    /\ \E pragma \in PragmaOutcomes(hDb) : hPragma' = pragma
    /\ hPc' = "finally"
    /\ UNCHANGED <<hDb, hConn, hOpened, hCloses, hRet, hCalls, hSeen>>
    /\ VaultFrame

\* Lines 47-51: the finally clause, then the return of True or, from the
\* except clause, of False.
VaultFinally ==
    /\ hPc = "finally"
    /\ IF FinallyCloses(hPragma)
       THEN hConn' = "closed" /\ hCloses' = hCloses + 1
       ELSE UNCHANGED <<hConn, hCloses>>
    /\ hRet' = IF hPragma = "ok" THEN "True" ELSE "False"
    /\ hPc' = "done"
    /\ UNCHANGED <<hDb, hOpened, hPragma, hCalls, hSeen>>
    /\ VaultFrame

\* Another program creates, replaces or removes vault.db.
VaultDbChange ==
    /\ hPc \in {"idle", "done", "connect"}
    /\ hCalls < MaxVaultCalls
    /\ \E db \in DbKinds : db # hDb /\ hDb' = db
    /\ UNCHANGED <<hPc, hConn, hOpened, hCloses, hPragma, hRet, hCalls, hSeen>>
    /\ VaultFrame

NextVault ==
    \/ VaultCall
    \/ VaultExists
    \/ VaultConnect
    \/ VaultExecute
    \/ VaultFinally
    \/ VaultDbChange

SpecVault == InitVault /\ [][NextVault]_vars

(***************************************************************************)
(* SpecFetchLock: threads running BaseFetcher.fetch for one URL against    *)
(* the shared cache.                                                       *)
(***************************************************************************)
InitFetchLock ==
    /\ SsrfIdle
    /\ RetryIdle
    /\ FetchIdle
    /\ ScrapeIdle
    /\ KeyIdle
    /\ CacheIdle
    /\ FetcherIdle
    /\ LockIdle
    /\ VaultIdle
    /\ DetectIdle
    /\ ThreadIdle
    /\ SanitizeIdle
    /\ PipeIdle
    /\ WalkIdle
    /\ ExtractIdle
    /\ SharedIdle
    /\ HopIdle
    /\ FetchLockStart

FetchLockFrame == UNCHANGED <<ssrfVars, retryVars, fetchVars, scrapeVars, keyVars, cacheVars,
                              fetcherVars, lockVars, vaultVars, detectVars, threadVars, sanitizeVars, pipeVars, walkVars, extractVars, sharedVars, hopVars>>

\* base.py lines 177-191: _validate_url, then get_cache() and the call of
\* cache.get, which waits for the lock at line 351.
FetchBegin(t) ==
    /\ bPc[t] = "idle"
    /\ \E is_valid \in BOOLEAN :
          bPc' = [bPc EXCEPT ![t] = IF is_valid THEN "get_wait" ELSE "done"]
    /\ UNCHANGED <<bLock, bNet, bSteps, bStored>>
    /\ FetchLockFrame

\* content_cache.py line 351 (get) and line 435 (set): the lock is taken.
FetchAcquire(t) ==
    /\ bPc[t] \in {"get_wait", "set_wait"}
    /\ bLock = NoThread
    /\ bLock' = t
    /\ bPc' = [bPc EXCEPT ![t] = IF bPc[t] = "get_wait" THEN "get_in" ELSE "set_in"]
    /\ UNCHANGED <<bNet, bSteps, bStored>>
    /\ FetchLockFrame

\* content_cache.py lines 352-386, base.py lines 192-204: get reads the
\* entry and returns; fetch returns the cached result or goes on to
\* _fetch_impl.
FetchGetReturn(t) ==
    /\ bPc[t] = "get_in"
    /\ \E ending \in GetEndings(bStored) :
          /\ bLock' = lock_after(bLock, t, "get", ending)
          /\ bPc' = [bPc EXCEPT ![t] = IF ending = "miss" THEN "network" ELSE "done"]
          /\ bNet' = [bNet EXCEPT ![t] = IF ending = "miss" THEN "dns" ELSE "none"]
          /\ bStored' = (bStored /\ ending # "miss")
    /\ UNCHANGED bSteps
    /\ FetchLockFrame

\* base.py line 204: _fetch_impl goes from one network activity to the
\* next.
FetchNetworkStep(t) ==
    /\ bPc[t] = "network"
    /\ bSteps[t] < MaxNetSteps
    /\ \E activity \in NetworkActivities \ {bNet[t]} :
          bNet' = [bNet EXCEPT ![t] = activity]
    /\ bSteps' = [bSteps EXCEPT ![t] = bSteps[t] + 1]
    /\ UNCHANGED <<bPc, bLock, bStored>>
    /\ FetchLockFrame

\* base.py lines 204-217: _fetch_impl returns; a failure is returned, a
\* cacheable success goes to cache.set, which waits for the lock.
FetchImplReturn(t) ==
    /\ bPc[t] = "network"
    /\ \E success \in BOOLEAN, do_not_cache \in BOOLEAN :
          bPc' = [bPc EXCEPT ![t] =
                     IF success /\ ~do_not_cache THEN "set_wait" ELSE "done"]
    /\ bNet' = [bNet EXCEPT ![t] = "none"]
    /\ bSteps' = [bSteps EXCEPT ![t] = 0]
    /\ UNCHANGED <<bLock, bStored>>
    /\ FetchLockFrame

\* content_cache.py lines 436-473, base.py lines 219-226: set writes the
\* entry or gives up, and fetch returns.
FetchSetReturn(t) ==
    /\ bPc[t] = "set_in"
    /\ \E written \in BOOLEAN :
          /\ bLock' = lock_after(bLock, t, "set", IF written THEN "True" ELSE "False")
          /\ bStored' = (written \/ bStored)
    /\ bPc' = [bPc EXCEPT ![t] = "done"]
    /\ UNCHANGED <<bNet, bSteps>>
    /\ FetchLockFrame

\* The caller calls fetch again.
FetchAgain(t) ==
    /\ bPc[t] = "done"
    /\ bPc' = [bPc EXCEPT ![t] = "idle"]
    /\ UNCHANGED <<bLock, bNet, bSteps, bStored>>
    /\ FetchLockFrame

NextFetchLock ==
    \E t \in Threads :
        \/ FetchBegin(t)
        \/ FetchAcquire(t)
        \/ FetchGetReturn(t)
        \/ FetchNetworkStep(t)
        \/ FetchImplReturn(t)
        \/ FetchSetReturn(t)
        \/ FetchAgain(t)

SpecFetchLock == InitFetchLock /\ [][NextFetchLock]_vars

(***************************************************************************)
(* SpecDetect: detect_url_type applied to one URL.                         *)
(***************************************************************************)
InitDetect ==
    /\ SsrfIdle
    /\ RetryIdle
    /\ FetchIdle
    /\ ScrapeIdle
    /\ KeyIdle
    /\ CacheIdle
    /\ FetcherIdle
    /\ LockIdle
    /\ VaultIdle
    /\ FetchLockIdle
    /\ ThreadIdle
    /\ SanitizeIdle
    /\ PipeIdle
    /\ WalkIdle
    /\ ExtractIdle
    /\ SharedIdle
    /\ HopIdle
    /\ \E u \in DetectUrls : DetectStart(u)

\* url_detector.py lines 14-52.
Detect ==
    /\ dType = "unset"
    /\ dType' = detect_url_type(dUrl)
    /\ UNCHANGED <<dUrl, ssrfVars, retryVars, fetchVars, scrapeVars, keyVars, cacheVars,
                   fetcherVars, lockVars, vaultVars, flockVars, threadVars, sanitizeVars, pipeVars, walkVars, extractVars, sharedVars, hopVars>>

NextDetect == Detect

SpecDetect == InitDetect /\ [][NextDetect]_vars

(***************************************************************************)
(* SpecThread: the Twitter strategy applied to https://x.com/u/status/42.  *)
(***************************************************************************)
InitThread ==
    /\ SsrfIdle
    /\ RetryIdle
    /\ FetchIdle
    /\ ScrapeIdle
    /\ KeyIdle
    /\ CacheIdle
    /\ FetcherIdle
    /\ LockIdle
    /\ VaultIdle
    /\ FetchLockIdle
    /\ DetectIdle
    /\ SanitizeIdle
    /\ PipeIdle
    /\ WalkIdle
    /\ ExtractIdle
    /\ SharedIdle
    /\ HopIdle
    /\ \E posts \in ThreadWorlds, note \in BOOLEAN, fx \in FxAnswers :
          ThreadStart(posts, note, fx)

\* fetcher.py lines 72-165.
TwitterFetch ==
    /\ wOut = NoTweet
    /\ wOut' = tweet_fetch_impl(wPosts, wNote, wFx, 42)
    /\ wTried' = reconstruction_calls(wPosts, wNote, wFx, 42)
    /\ UNCHANGED <<wPosts, wNote, wFx, ssrfVars, retryVars, fetchVars, scrapeVars, keyVars,
                   cacheVars, fetcherVars, lockVars, vaultVars, flockVars, detectVars, sanitizeVars, pipeVars, walkVars, extractVars, sharedVars, hopVars>>

NextThread == TwitterFetch

SpecThread == InitThread /\ [][NextThread]_vars

(***************************************************************************)
(* SpecSanitize: sanitize_content applied to a text, and again to its      *)
(* result.                                                                 *)
(***************************************************************************)
InitSanitize ==
    /\ SsrfIdle
    /\ RetryIdle
    /\ FetchIdle
    /\ ScrapeIdle
    /\ KeyIdle
    /\ CacheIdle
    /\ FetcherIdle
    /\ LockIdle
    /\ VaultIdle
    /\ FetchLockIdle
    /\ DetectIdle
    /\ ThreadIdle
    /\ PipeIdle
    /\ WalkIdle
    /\ ExtractIdle
    /\ SharedIdle
    /\ HopIdle
    /\ \E x \in Texts \cup MixedTexts, f \in Formats : SanitizeStart(x, f)

SanitizeFrame == UNCHANGED <<ssrfVars, retryVars, fetchVars, scrapeVars, keyVars, cacheVars,
                             fetcherVars, lockVars, vaultVars, flockVars, detectVars, threadVars, pipeVars, walkVars, extractVars, sharedVars, hopVars>>

\* sanitize_content(x, format).
Sanitize ==
    /\ zPc = "input"
    /\ zOnce' = sanitize_content(zIn, zFormat)
    /\ zPc' = "once"
    /\ UNCHANGED <<zIn, zFormat, zTwice>>
    /\ SanitizeFrame

\* sanitize_content of what the first call returned.
SanitizeAgain ==
    /\ zPc = "once"
    /\ zTwice' = sanitize_content(zOnce, zFormat)
    /\ zPc' = "twice"
    /\ UNCHANGED <<zIn, zFormat, zOnce>>
    /\ SanitizeFrame

NextSanitize == Sanitize \/ SanitizeAgain

SpecSanitize == InitSanitize /\ [][NextSanitize]_vars


(***************************************************************************)
(* scrape_content over strategies that may answer with redirect markers    *)
(* (SpecReroute).  Every call that has begun is carried on to its return   *)
(* or to its recursive call, as the interpreter does.                      *)
(***************************************************************************)
RerouteUrls ==
    { Url("https", NameHost(<<"x", "com">>)), Url("https", NameHost(<<"t", "co">>)),
      [Url("https", NameHost(<<"example", "com">>)) EXCEPT !.ws = TRUE], NoUrl }

InitReroute ==
    /\ SsrfIdle
    /\ RetryIdle
    /\ FetchIdle
    /\ StoreIdle
    /\ \E u \in RerouteUrls, d \in 0..max_redirect_depth : ScrapeStart(u, d, "call")

ScrapeContentAny == ScrapeCall(TRUE)

NextReroute == ScrapeContentAny

SpecReroute == InitReroute /\ [][NextReroute]_vars /\ WF_vars(NextReroute)


(***************************************************************************)
(* SpecWalk: fetch_thread_reconstruction(1, thread_author) on its fallback *)
(* path.  The interpreter carries the loop on, so each step is weakly      *)
(* fair.                                                                   *)
(***************************************************************************)
InitWalk ==
    /\ SsrfIdle
    /\ RetryIdle
    /\ FetchIdle
    /\ ScrapeIdle
    /\ KeyIdle
    /\ CacheIdle
    /\ FetcherIdle
    /\ LockIdle
    /\ VaultIdle
    /\ FetchLockIdle
    /\ DetectIdle
    /\ ThreadIdle
    /\ SanitizeIdle
    /\ PipeIdle
    /\ ExtractIdle
    /\ SharedIdle
    /\ HopIdle
    /\ \E posts \in ReplyChains, thread_author \in {"@u", "@U"} :
          WalkStart(posts, thread_author, 1, "loop")

WalkFrame ==
    UNCHANGED <<yPosts, yAuthor, ssrfVars, retryVars, fetchVars, scrapeVars, keyVars,
                cacheVars, fetcherVars, lockVars, vaultVars, flockVars, detectVars, threadVars, sanitizeVars, pipeVars, extractVars, sharedVars, hopVars>>

\* Lines 149-186: one iteration of the loop.
WalkIterate ==
    /\ yPc = "loop"
    /\ WalkOn(yCurrent, yTweets)
    /\ IF yCurrent \in ySeen
       THEN /\ yPc' = "after"
            /\ UNCHANGED <<yCurrent, yTweets, ySeen, yFetches>>
       ELSE /\ ySeen' = ySeen \cup {yCurrent}
            /\ yFetches' = yFetches + 1
            /\ IF WalkBreaks(yPosts[yCurrent], yAuthor)
               THEN /\ yPc' = "after"
                    /\ UNCHANGED <<yCurrent, yTweets>>
               ELSE /\ yTweets' = <<yCurrent>> \o yTweets
                    /\ yCurrent' = yPosts[yCurrent].in_reply_to
                    /\ UNCHANGED yPc
    /\ UNCHANGED yOut
    /\ WalkFrame

\* Line 149: the loop condition fails.
WalkExit ==
    /\ yPc = "loop"
    /\ ~WalkOn(yCurrent, yTweets)
    /\ yPc' = "after"
    /\ UNCHANGED <<yCurrent, yTweets, ySeen, yFetches, yOut>>
    /\ WalkFrame

\* Lines 188-212: the result.
WalkReturn ==
    /\ yPc = "after"
    /\ yOut' = thread_of(1, yTweets)
    /\ yPc' = "done"
    /\ UNCHANGED <<yCurrent, yTweets, ySeen, yFetches>>
    /\ WalkFrame

NextWalk == WalkIterate \/ WalkExit \/ WalkReturn

SpecWalk == InitWalk /\ [][NextWalk]_vars /\ WF_vars(NextWalk)


(***************************************************************************)
(* SpecExtract: extract_comments on a comment listing.                     *)
(***************************************************************************)
InitExtract ==
    /\ SsrfIdle
    /\ RetryIdle
    /\ FetchIdle
    /\ ScrapeIdle
    /\ KeyIdle
    /\ CacheIdle
    /\ FetcherIdle
    /\ LockIdle
    /\ VaultIdle
    /\ FetchLockIdle
    /\ DetectIdle
    /\ ThreadIdle
    /\ SanitizeIdle
    /\ PipeIdle
    /\ WalkIdle
    /\ SharedIdle
    /\ HopIdle
    /\ \E listing \in Listings35 : ExtractStart(listing, "call")

\* reddit.py line 342: comments = extract_comments(comments_listing).
ExtractComments ==
    /\ ePc = "call"
    /\ eOut' = extract_comments(eIn)
    /\ ePc' = "done"
    /\ UNCHANGED <<eIn, ssrfVars, retryVars, fetchVars, scrapeVars, keyVars, cacheVars,
                   fetcherVars, lockVars, vaultVars, flockVars, detectVars, threadVars, sanitizeVars, pipeVars, walkVars, sharedVars, hopVars>>

NextExtract == ExtractComments

SpecExtract == InitExtract /\ [][NextExtract]_vars


(***************************************************************************)
(* SpecShared: two instances set the same URL.  A step is one system call  *)
(* of tmp_path.write_text (open, write, close) or the rename.              *)
(***************************************************************************)
InitShared ==
    /\ SsrfIdle
    /\ RetryIdle
    /\ FetchIdle
    /\ ScrapeIdle
    /\ KeyIdle
    /\ CacheIdle
    /\ FetcherIdle
    /\ LockIdle
    /\ VaultIdle
    /\ FetchLockIdle
    /\ DetectIdle
    /\ ThreadIdle
    /\ SanitizeIdle
    /\ PipeIdle
    /\ WalkIdle
    /\ ExtractIdle
    /\ HopIdle
    /\ \E entry \in {NoInode, 1}, blocks \in [Writers -> 1..MaxBlocks] :
          SharedStart(entry, blocks)

SharedFrame == UNCHANGED <<ssrfVars, retryVars, fetchVars, scrapeVars, keyVars, cacheVars,
                           fetcherVars, lockVars, vaultVars, flockVars, detectVars, threadVars, sanitizeVars, pipeVars, walkVars, extractVars, hopVars>>

\* Line 454, write_text: open(tmp_path, "w").
SetOpen(w) ==
    /\ qPc[w] = "open"
    /\ LET o == OpenTruncate(qNames, qData, qNext, tmp_path(w))
       IN /\ qNames' = o.names
          /\ qData' = o.data
          /\ qNext' = o.next
          /\ qFd' = [qFd EXCEPT ![w] = o.fd]
    /\ qPc' = [qPc EXCEPT ![w] = "write"]
    /\ UNCHANGED <<qOff, qLen, qRet>>
    /\ SharedFrame

\* Line 454, write_text: the next block of entry_json is written.
SetWrite(w) ==
    /\ qPc[w] = "write"
    /\ qOff[w] < qLen[w]
    /\ qData' = [qData EXCEPT ![qFd[w]] = WriteAt(@, qOff[w], Block(w, qOff[w] + 1))]
    /\ qOff' = [qOff EXCEPT ![w] = @ + 1]
    /\ UNCHANGED <<qNames, qNext, qPc, qFd, qLen, qRet>>
    /\ SharedFrame

\* Line 454, write_text: the file is closed.
SetClose(w) ==
    /\ qPc[w] = "write"
    /\ qOff[w] = qLen[w]
    /\ qPc' = [qPc EXCEPT ![w] = "rename"]
    /\ UNCHANGED <<qNames, qData, qNext, qFd, qOff, qLen, qRet>>
    /\ SharedFrame

\* Lines 455-473: tmp_path.rename(entry_path) and return True; without a
\* file of the temporary name rename raises FileNotFoundError, an OSError,
\* which line 468 answers with False.
SetRename(w) ==
    /\ qPc[w] = "rename"
    /\ IF qNames[tmp_path(w)] # NoInode
       THEN /\ qNames' = [qNames EXCEPT !["entry"] = qNames[tmp_path(w)],
                                        ![tmp_path(w)] = NoInode]
            /\ qRet' = [qRet EXCEPT ![w] = "True"]
       ELSE /\ qRet' = [qRet EXCEPT ![w] = "False"]
            /\ UNCHANGED qNames
    /\ qPc' = [qPc EXCEPT ![w] = "done"]
    /\ UNCHANGED <<qData, qNext, qFd, qOff, qLen>>
    /\ SharedFrame

NextShared == \E w \in Writers : SetOpen(w) \/ SetWrite(w) \/ SetClose(w) \/ SetRename(w)

SpecShared == InitShared /\ [][NextShared]_vars


(***************************************************************************)
(* SpecHops: one call of safe_fetch or of resolve_redirects, request by    *)
(* request.                                                                *)
(***************************************************************************)
InitHops ==
    /\ SsrfIdle
    /\ RetryIdle
    /\ FetchIdle
    /\ ScrapeIdle
    /\ KeyIdle
    /\ CacheIdle
    /\ FetcherIdle
    /\ LockIdle
    /\ VaultIdle
    /\ FetchLockIdle
    /\ DetectIdle
    /\ ThreadIdle
    /\ SanitizeIdle
    /\ PipeIdle
    /\ WalkIdle
    /\ ExtractIdle
    /\ SharedIdle
    /\ \E who \in HopEntries, url \in HopUrls, route \in Routes :
          HopStart(who, url, route, "start")

HopFrame == UNCHANGED <<ssrfVars, retryVars, fetchVars, scrapeVars, keyVars, cacheVars,
                        fetcherVars, lockVars, vaultVars, flockVars, detectVars, threadVars, sanitizeVars, pipeVars, walkVars, extractVars, sharedVars>>

\* fetch_base.py lines 82-86: safe_fetch validates its url.
HopSafeFetchValidate ==
    /\ jWho = "safe_fetch"
    /\ jPc = "start"
    /\ IF SsrfGate(jUrl, HopDns(jUrl.host)).raised
       THEN /\ jOut' = "SSRF protection"
            /\ jPc' = "done"
            /\ UNCHANGED jPassed
       ELSE /\ jPassed' = jPassed \cup {jUrl}
            /\ jPc' = "request"
            /\ UNCHANGED jOut
    /\ UNCHANGED <<jWho, jUrl, jRoute, jAt, jSent>>
    /\ HopFrame

\* resolve_redirects.py lines 113-127: a URL of no shortener is returned
\* unchanged without a request; a shortener's URL goes to the client.
HopResolveStart ==
    /\ jWho = "resolve_redirects"
    /\ jPc = "start"
    /\ IF is_shortener(jUrl)
       THEN /\ jPc' = "request"
            /\ UNCHANGED jOut
       ELSE /\ jOut' = "unchanged"
            /\ jPc' = "done"
    /\ UNCHANGED <<jWho, jUrl, jRoute, jAt, jSent, jPassed>>
    /\ HopFrame

\* requests.get (fetch_base.py 95-100) or client.head (resolve_redirects.py
\* 146): the request to the current URL is sent; answered with a redirect,
\* the client goes on to its target.
HopSend ==
    /\ jPc = "request"
    /\ jSent' = Append(jSent, Sent(jAt, jPassed))
    /\ IF FollowsRedirects(jRoute)
       THEN /\ jAt' = Head(jRoute)
            /\ jRoute' = Tail(jRoute)
            /\ UNCHANGED jPc
       ELSE /\ jPc' = "response"
            /\ UNCHANGED <<jAt, jRoute>>
    /\ UNCHANGED <<jWho, jUrl, jPassed, jOut>>
    /\ HopFrame

\* The last response is in: safe_fetch reads it (fetch_base.py 102-133);
\* resolve_redirects validates response.url (resolve_redirects.py 147-169).
HopReturn ==
    /\ jPc = "response"
    /\ IF jWho = "resolve_redirects" /\ ~ResolvedIsSafe(jAt, HopDns(jAt.host))
       THEN /\ jOut' = "failed security validation"
            /\ UNCHANGED jPassed
       ELSE /\ jOut' = "ok"
            /\ jPassed' = IF jWho = "resolve_redirects" THEN jPassed \cup {jAt} ELSE jPassed
    /\ jPc' = "done"
    /\ UNCHANGED <<jWho, jUrl, jRoute, jAt, jSent>>
    /\ HopFrame

NextHops == HopSafeFetchValidate \/ HopResolveStart \/ HopSend \/ HopReturn

SpecHops == InitHops /\ [][NextHops]_vars

(***************************************************************************)
(* The claims.                                                             *)
(***************************************************************************)

\* validate_url_ssrf_strict as safe_fetch ran it on its url.
GateRaised == validate_url_ssrf_strict(req.url, vetted, TRUE).raised

\* C1: safe_fetch sends no HTTP request unless the strict SSRF validation of
\* its url has passed; when the validation raises, safe_fetch returns a
\* failure (success false, status_code None) after zero requests, zero
\* retries and zero sleeps.
C1_GateBeforeAnyRequest ==
    caller = "safe_fetch" =>
        /\ calls > 0 \/ connected # {} => pc # "start" /\ ~GateRaised
        /\ pc # "start" /\ GateRaised =>
              /\ pc = "done"
              /\ result.success = FALSE
              /\ result.status_code = NoStatus
              /\ calls = 0
              /\ attempt = 0
              /\ sleeps = <<>>
              /\ connected = {}

C1_Witness ==
    /\ caller = "safe_fetch"
    /\ pc = "done"
    /\ GateRaised
    /\ req.url.host = NameHost(<<"example", "com">>)
    /\ result = Dict(FALSE, NoStatus, 0, "SSRF protection")

\* C2: no request issued by safe_fetch ever connects to a private or
\* reserved address, even when the resolver's answer for the host differs
\* between the validator's resolution and the HTTP client's own later
\* resolution, on the first attempt or on a retry.
C2_NoPrivateConnection ==
    caller = "safe_fetch" => \A a \in connected : ~is_private_ip(a)

\* C3: for every http(s) URL whose host is an IP literal, validate_url_ssrf
\* rejects the URL when the literal is a private or reserved address
\* (RFC1918, loopback, link-local, CGNAT, documentation, multicast,
\* reserved, broadcast, and their IPv6 equivalents) and accepts it when the
\* literal is a public address.
C3_LiteralGate ==
    vPc = "validated" /\ vUrl.scheme \in {"http", "https"} /\ vUrl.host.kind = "ip"
        /\ vUrl.bracket # "open" =>
        /\ ClassOf(vUrl.host.ip) \in PrivateClasses => ~vResult.ok
        /\ ClassOf(vUrl.host.ip) = "public" => vResult.ok

\* C4: for a URL whose host is a DNS name on no blocklist, a resolver answer
\* holding at least one private or reserved address makes validate_url_ssrf
\* return not-ok and validate_url_ssrf_strict raise; a failed resolution
\* lets the validation pass; and the strict variant raises exactly when the
\* other returns not-ok, returning the stripped URL otherwise.
C4_ResolvedNameGate ==
    vPc = "validated" /\ vUrl.scheme \in {"http", "https"} /\ vUrl.host.kind = "name"
        /\ ~is_blocked_hostname(vUrl.host) =>
        /\ vDns.status = "ok"
              /\ (\E i \in 1..Len(vDns.addrs) : ClassOf(vDns.addrs[i]) \in PrivateClasses)
              => ~vResult.ok /\ vStrict.raised
        /\ vDns.status # "ok" => vResult.ok
        /\ vStrict.raised <=> ~vResult.ok
        /\ vResult.ok => vStrict.value = Strip(vUrl)

\* C5: when a known-shortener URL resolves to a final URL that fails the
\* SSRF validation, resolve_redirects returns success false and
\* scrape_content returns a failure envelope without invoking any platform
\* strategy on the resolved URL.
C5_UnsafeResolutionRefused ==
    sPc = "done" /\ sHeads > 0 /\ sHead.kind = "ok"
        /\ ~validate_url_ssrf(sHead.final, sDns, TRUE).ok =>
        /\ sResolved.success = FALSE
        /\ sOut.success = FALSE
        /\ \A i \in 1..Len(sStrategies) : sStrategies[i].url # sHead.final

C5_Witness ==
    /\ sPc = "done"
    /\ sHeads = 1
    /\ sHead = HeadOk(Url("http", IpHost(PrivateAddr)), 2)
    /\ sResolved.was_shortened
    /\ sOut.success = FALSE
    /\ sStrategies = <<>>

\* An error the retry policy names transient: 429, 5xx, connection and
\* timeout failures.
TransientFailure(o) ==
    /\ o.kind = "raise"
    /\ \/ o.cls \in {"requests.ConnectionError", "requests.Timeout", "ConnectionError",
                     "TimeoutError", "ChunkedEncodingError"}
       \/ o.cls = "HTTPError" /\ o.status \in {429, 500, 502, 503, 504}

\* retry_call has been entered: directly, or by a safe_fetch with retry on
\* whose url passed the gate.
RetryCallRan ==
    \/ caller = "retry_call"
    \/ caller = "safe_fetch" /\ req.retry /\ pc # "start" /\ ~GateRaised

\* C6: for max_retries >= 0, retry_call invokes the operation at least once
\* and at most max_retries + 1 times; when every attempt fails with a
\* transient error it invokes it exactly max_retries + 1 times, sleeps
\* exactly max_retries times, only between attempts, and re-raises the last
\* attempt's exception; so safe_fetch against a server that always answers
\* 503 sends exactly max_retries + 1 requests and returns a failure with
\* status_code 503.
C6_RetryBudget ==
    RetryCallRan /\ cfg.max_retries >= 0 =>
        /\ calls <= cfg.max_retries + 1
        /\ pc = "loop" => Len(sleeps) = calls
        /\ pc = "done" => calls >= 1 /\ Len(sleeps) = calls - 1
        /\ pc = "done" /\ (\A i \in 1..Len(hist) : TransientFailure(hist[i])) =>
              /\ calls = cfg.max_retries + 1
              /\ Len(sleeps) = cfg.max_retries
              /\ outcome = hist[Len(hist)]
        /\ caller = "safe_fetch" /\ pc = "done"
              /\ (\A i \in 1..Len(hist) : hist[i] = Exc("HTTPError", 503)) =>
              /\ calls = req.max_retries + 1
              /\ result = Dict(FALSE, 503, 0, "HTTP status")

C6_Witness ==
    /\ caller = "safe_fetch"
    /\ pc = "done"
    /\ req.retry
    /\ req.max_retries = MaxFetchRetries
    /\ calls = MaxFetchRetries + 1
    /\ Len(sleeps) = MaxFetchRetries
    /\ \A i \in 1..Len(hist) : hist[i] = Exc("HTTPError", 503)
    /\ result.status_code = 503

\* C7: an operation that raises an HTTP error with status 404 is not
\* retried by retry_call: the operation is invoked exactly once, no sleep
\* occurs, and that error propagates to the caller.
C7_NotFoundNotRetried ==
    caller = "retry_call" /\ Len(hist) >= 1 /\ hist[1] = Exc("HTTPError", 404) =>
        /\ calls = 1
        /\ sleeps = <<>>
        /\ pc = "done"
        /\ outcome = Exc("HTTPError", 404)

\* The operation failed with HTTP 500 twice and then succeeded.
FailedTwiceThenSucceeded ==
    /\ caller = "retry_call"
    /\ Len(hist) = 3
    /\ hist[1] = Exc("HTTPError", 500)
    /\ hist[2] = Exc("HTTPError", 500)
    /\ hist[3].kind = "return"

OverLimitErrors == {"Response too large", "Response exceeded size limit"}

\* The last request of safe_fetch got a response whose status is not a
\* transient one, so _do_fetch went on to its size checks.
SizeChecked ==
    /\ caller = "safe_fetch"
    /\ Len(hist) >= 1
    /\ resp # NoResp
    /\ resp.status \notin TRANSIENT_STATUS_CODES
    /\ resp.cl.kind # "garbage"

\* C9: whenever safe_fetch returns success the content is no longer than
\* max_size, for every Content-Length header and every chunking of the
\* body; a declared Content-Length above max_size fails before any body
\* chunk is read; a streamed body fails at the first chunk that takes the
\* accumulated size above max_size; and an over-limit response is a
\* permanent failure, never retried.
C9_SizeCap ==
    caller = "safe_fetch" =>
        /\ result.success => result.content <= req.max_size
        /\ SizeChecked /\ resp.cl.kind = "int" /\ resp.cl.n > req.max_size =>
              /\ chunksRead = 0
              /\ pc = "done"
              /\ result = Dict(FALSE, resp.status, 0, "Response too large")
        /\ SizeChecked /\ ~(resp.cl.kind = "int" /\ resp.cl.n > req.max_size)
              /\ FirstOver(resp.chunks, req.max_size) > 0 =>
              /\ chunksRead = FirstOver(resp.chunks, req.max_size)
              /\ pc = "done"
              /\ result = Dict(FALSE, resp.status, 0, "Response exceeded size limit")
        /\ \A i \in 1..Len(hist) :
              hist[i].kind = "return" /\ hist[i].value.error \in OverLimitErrors =>
                  /\ i = Len(hist)
                  /\ pc = "done"
                  /\ result.success = FALSE
                  /\ i = 1 => calls = 1 /\ sleeps = <<>>

C9_Witness ==
    /\ caller = "safe_fetch"
    /\ pc = "done"
    /\ req.retry
    /\ req.max_retries >= 1
    /\ calls = 1
    /\ resp.cl = Length(2)
    /\ req.max_size = 2
    /\ resp.chunks = <<1, 2>>
    /\ chunksRead = 2
    /\ result = Dict(FALSE, 200, 0, "Response exceeded size limit")

\* The body of the last response arrived whole and passed the size checks.
BodyAccepted ==
    /\ ~resp.broken
    /\ resp.cl.kind # "garbage"
    /\ ~(resp.cl.kind = "int" /\ resp.cl.n > req.max_size)
    /\ FirstOver(resp.chunks, req.max_size) = 0

C11_FetchNeverRaises == fOut.kind # "raise"

\* ---------------------------------------------------------------------
\* C12.  Cache round trip: with the cache enabled, a successful payload p
\* whose serialized entry is at most 1,000,000 bytes and a positive TTL,
\* set(u, p) returns True, and a get(u) that follows with no cache
\* operation in between and the clock not past created_at + ttl returns p
\* unchanged.
\* ---------------------------------------------------------------------
SetAccepted(o) ==
    /\ o.op = "set"
    /\ cCfg.enabled
    /\ o.data.success
    /\ Serializable(o.data)
    /\ o.data.bytes <= 1000000

C12_RoundTrip ==
    /\ (SetAccepted(cOp) /\ get_ttl(cCfg, cOp.ttl_type) > 0) => cOp.ret
    /\ ( /\ cOp.op = "get"
         /\ cPrev.op = "set"
         /\ cPrev.ret
         /\ cPrev.url = cOp.url
         /\ ~is_expired(cOp.before.dir[url_key(cOp.url)], cOp.at) )
       => (cOp.ret /\ cOp.data = cPrev.data)

\* ---------------------------------------------------------------------
\* C13.  get(u) on an entry that is expired or whose file is corrupt (no
\* parseable cache entry) reports a miss, the file is gone after the call,
\* and no error reaches the caller.
\* ---------------------------------------------------------------------
GetOnStaleOrCorrupt ==
    /\ cOp.op = "get"
    /\ cCfg.enabled
    /\ LET f == cOp.before.dir[url_key(cOp.url)]
       IN /\ f.kind # "absent"
          /\ ReadError(f) # "none" \/ is_expired(f, cOp.at)

C13_SelfHealingGet ==
    GetOnStaleOrCorrupt =>
        /\ ~cOp.ret
        /\ cOp.raised = "none"
        /\ cDir[url_key(cOp.url)].kind = "absent"

\* ---------------------------------------------------------------------
\* C14.  set(u, p) returns False and leaves the cache directory as it was
\* (nothing written, replaced, purged or evicted) when the cache is
\* disabled, p is not marked successful, or the serialized entry is above
\* 1,000,000 bytes.
\* ---------------------------------------------------------------------
SetRefused ==
    /\ cOp.op = "set"
    /\ ~cCfg.enabled \/ ~cOp.data.success \/ cOp.data.bytes > 1000000

C14_RefusedSetIsNoOp ==
    SetRefused =>
        /\ ~cOp.ret
        /\ cOp.removed = <<>>
        /\ Files(cDir, cTmp) = cOp.before

C14_Witness ==
    /\ SetRefused
    /\ cCfg.enabled
    /\ cOp.data.success
    /\ \E k \in Present(cDir) : cDir[k].kind = "entry" /\ is_expired(cDir[k], cNow)
    /\ cNow = cOp.at

\* ---------------------------------------------------------------------
\* C15.  A process that dies at any point of set(u, p) leaves the entry
\* file of u absent, as it was before the call, or holding the new
\* complete entry; no entry file is ever a partial entry.
\* ---------------------------------------------------------------------
C15_CrashLeavesNoPartialEntry ==
    /\ \A k \in CacheKeys : cDir[k].kind # "partial"
    /\ cOp.op \in Crashes =>
          LET k == url_key(cOp.url)
          IN \/ cDir[k] = NoFile
             \/ cDir[k] = cOp.before.dir[k]
             \/ cDir[k] = CacheEntry(cOp.url, cOp.data, cOp.at,
                                     get_ttl(cCfg, cOp.ttl_type))

C15_Witness ==
    /\ cOp.op = CrashedAt("partial")
    /\ LET k == url_key(cOp.url)
       IN /\ cTmp[k] = Partial
          /\ cOp.before.dir[k].kind = "entry"
          /\ cDir[k] = cOp.before.dir[k]

\* ---------------------------------------------------------------------
\* C16.  For max_entries >= 1 the directory holds at most max_entries
\* entries after every successful set; and, starting from an empty
\* directory, max_entries + 1 successful sets in a row of URLs with
\* pairwise different cache keys, none of which purged an expired entry
\* or evicted for size, leave exactly max_entries entries.
\* ---------------------------------------------------------------------
SetSucceeded == cOp.op = "set" /\ cOp.ret

DistinctUrls(urls) == \A i, j \in 1..Len(urls) : urls[i] = urls[j] => i = j

DistinctKeys(urls) ==
    \A i, j \in 1..Len(urls) : url_key(urls[i]) = url_key(urls[j]) => i = j

OneMoreThanFits ==
    /\ cCfg.max_entries >= 1
    /\ cRun.on
    /\ Len(cRun.urls) = cCfg.max_entries + 1
    /\ ~cRun.purged

C16_EntryCountBounded ==
    /\ (SetSucceeded /\ cCfg.max_entries >= 1)
          => Cardinality(Present(cDir)) <= cCfg.max_entries
    /\ (OneMoreThanFits /\ DistinctKeys(cRun.urls) /\ ~cRun.sized)
          => Cardinality(Present(cDir)) = cCfg.max_entries

C16_Witness ==
    /\ OneMoreThanFits
    /\ DistinctKeys(cRun.urls)
    /\ ~cRun.sized
    /\ cCfg.max_entries = 2
    /\ cOp.removed # <<>>
    /\ Cardinality(Present(cDir)) = 2

\* C16 as stated: max_entries + 1 distinct URLs, none expired, leave
\* exactly max_entries entries.
C16_ExactlyMaxEntries ==
    /\ (SetSucceeded /\ cCfg.max_entries >= 1)
          => Cardinality(Present(cDir)) <= cCfg.max_entries
    /\ (OneMoreThanFits /\ DistinctUrls(cRun.urls))
          => Cardinality(Present(cDir)) = cCfg.max_entries

\* ---------------------------------------------------------------------
\* C17.  Eviction is oldest-first by created_at and independent of
\* access: an entry _enforce_limits evicts for count or size has the
\* least created_at of the entries present at that moment, and a get
\* leaves every file it does not delete, created_at included, as it was.
\* ---------------------------------------------------------------------
Evicted(r) == r.why \in {"count", "size"}

C17_OldestFirst ==
    /\ \A i \in 1..Len(cOp.removed) :
          LET r == cOp.removed[i]
          IN Evicted(r) =>
                \A j \in Present(r.before) :
                    r.before[r.key].created_at <= r.before[j].created_at
    /\ cOp.op = "get" =>
          \A k \in CacheKeys : cDir[k] = cOp.before.dir[k] \/ cDir[k] = NoFile
    /\ (cOp.op = "get" /\ cOp.ret) => cDir = cOp.before.dir

\* The entry read last is the oldest, and it is the one evicted while a
\* younger entry that was not read stays.
C17_Witness ==
    /\ cOp.op = "set"
    /\ cPrev.op = "get"
    /\ cPrev.ret
    /\ Len(cOp.removed) = 1
    /\ Evicted(cOp.removed[1])
    /\ cOp.removed[1].key = url_key(cPrev.url)
    /\ \E j \in Present(cOp.before.dir) :
          cOp.before.dir[j].created_at > cOp.before.dir[url_key(cPrev.url)].created_at

C20_NoFailureNoFlaggedCached ==
    \A k \in Present(cDir) :
        cDir[k].kind = "entry" => (cDir[k].data.success /\ ~cDir[k].data.do_not_cache)

C20_Witness ==
    /\ fOut.kind = "return"
    /\ fOut.success
    /\ fOut.raw.do_not_cache
    /\ ~fOut.from_cache
    /\ cCfg.enabled
    /\ Present(cDir) # {}

\* ---------------------------------------------------------------------
\* C19.  Two URLs that denote the same resource under the aliasing rules
\* (scheme and host case, fragment, trailing slash, twitter.com /
\* www.twitter.com / x.com, old.reddit.com / www.reddit.com / reddit.com)
\* have the same cache key.
\* ---------------------------------------------------------------------
KeysComputed == kKeys # NoKeys

C19_AliasesShareKey ==
    (KeysComputed /\ kUrls.a.resource = kUrls.b.resource) => kKeys.a = kKeys.b

\* ---------------------------------------------------------------------
\* C30.  Size eviction: when _enforce_limits finishes inside a successful
\* set, the entry files it left total at most max_size_mb * 1024 * 1024
\* bytes (or none is left); each entry it removed for size was the oldest
\* at that moment and was removed while the total was above the limit;
\* so after the set the total is at most the limit plus the size of the
\* entry just written, itself at most 1,000,000 bytes.
\* ---------------------------------------------------------------------
max_bytes_of(config) == config.max_size_mb * 1024 * 1024

C30_SizeBoundAfterEnforce ==
    (cOp.op = "set" /\ cOp.ret) =>
        /\ \/ _get_total_size(cOp.enforced) <= max_bytes_of(cCfg)
           \/ Present(cOp.enforced) = {}
        /\ \A i \in 1..Len(cOp.removed) :
              LET r == cOp.removed[i]
              IN r.why = "size" =>
                    /\ _get_total_size(r.before) > max_bytes_of(cCfg)
                    /\ \A j \in Present(r.before) :
                          r.before[r.key].created_at <= r.before[j].created_at
        /\ cDir[url_key(cOp.url)].bytes <= 1000000
        /\ _get_total_size(cDir) <= max_bytes_of(cCfg) + cDir[url_key(cOp.url)].bytes

\* A set whose _enforce_limits evicted for size and left an entry.
C30_Witness ==
    /\ cOp.op = "set"
    /\ cOp.ret
    /\ cCfg.max_size_mb = 1
    /\ \E i \in 1..Len(cOp.removed) : cOp.removed[i].why = "size"
    /\ Present(cOp.enforced) # {}
    /\ _get_total_size(cDir) > max_bytes_of(cCfg)

\* C31: when the cache holds an unexpired entry for url, BaseFetcher.fetch
\* returns a success envelope built from the cached payload, marked as
\* coming from the cache, without invoking _fetch_impl; _fetch_impl is
\* invoked only on a miss.
C31_HitShortCircuitsStrategy ==
    fOut.kind # "none" =>
        /\ fCall.held =>
              /\ fOut.kind = "return"
              /\ fOut.success
              /\ fOut.from_cache
              /\ fCall.impl_calls = 0
        /\ fCall.impl_calls > 0 => ~fCall.held /\ ~fOut.from_cache

\* A fetch found the entry an earlier fetch had stored and returned it
\* without a strategy run.
C31_Witness ==
    /\ fCall.held
    /\ fOut.kind = "return"
    /\ fOut.from_cache
    /\ fOut.raw.success
    /\ fCall.impl_calls = 0


\* ---------------------------------------------------------------------
\* C37.  get_cache() always returns a ContentCache instance, never None,
\* under every interleaving of get_cache() and reset_cache() calls; and
\* get_cache() calls with no reset in between return one instance: an
\* instance is constructed only while there is none, becomes the global
\* one, and the global one is replaced by nothing but a reset.
\* ---------------------------------------------------------------------
Returns(t) == tPc[t] = "return" /\ tPc'[t] # "return"

C37_GetCacheNeverNone ==
    [][/\ \A t \in Threads : Returns(t) => tCache'[t] # NoCache
       /\ nInst' # nInst => (gCache = NoCache /\ gCache' = nInst')
       /\ (gCache # NoCache /\ gCache' # gCache) => gCache' = NoCache]_vars


\* ---------------------------------------------------------------------
\* C40.  set(u, p) for a URL u that already has an unexpired entry, in a
\* directory of unexpired entries within the size limit.  Below
\* max_entries entries the call replaces only u's entry: no other entry is
\* removed and the count stays.  At exactly max_entries entries
\* _enforce_limits evicts the oldest entry first: when that is u's own
\* the others stay and the count stays, otherwise the oldest other entry
\* is removed and the count is max_entries - 1.
\* ---------------------------------------------------------------------
Unexpired(f, now) == f.kind = "entry" /\ ~is_expired(f, now)

\* The last operation was a successful set of a URL whose entry was
\* there and unexpired, all files were unexpired entries, and their total
\* size was within the limit.
ReplacedUnexpired ==
    /\ cOp.op = "set"
    /\ cOp.ret
    /\ Unexpired(cOp.before.dir[url_key(cOp.url)], cOp.at)
    /\ \A k \in Present(cOp.before.dir) : Unexpired(cOp.before.dir[k], cOp.at)
    /\ _get_total_size(cOp.before.dir) <= cCfg.max_size_mb * 1024 * 1024

OthersKept ==
    \A k \in CacheKeys \ {url_key(cOp.url)} : cDir[k] = cOp.before.dir[k]

CountBefore == Cardinality(Present(cOp.before.dir))

OldestBefore(k) ==
    \A j \in Present(cOp.before.dir) :
        cOp.before.dir[k].created_at <= cOp.before.dir[j].created_at

C40_ReplaceEvictsAtMaxEntries ==
    ReplacedUnexpired =>
        /\ CountBefore < cCfg.max_entries =>
              OthersKept /\ Cardinality(Present(cDir)) = CountBefore
        /\ CountBefore = cCfg.max_entries =>
              /\ Len(cOp.removed) = 1
              /\ cOp.removed[1].why = "count"
              /\ OldestBefore(cOp.removed[1].key)
              /\ cOp.removed[1].key = url_key(cOp.url) =>
                    OthersKept /\ Cardinality(Present(cDir)) = CountBefore
              /\ cOp.removed[1].key # url_key(cOp.url) =>
                    Cardinality(Present(cDir)) = CountBefore - 1

\* The directory held max_entries unexpired entries, u's not the oldest:
\* the set of u removed another URL's entry and left one entry fewer.
C40_Witness ==
    /\ ReplacedUnexpired
    /\ CountBefore = cCfg.max_entries
    /\ Len(cOp.removed) = 1
    /\ cOp.removed[1].key # url_key(cOp.url)
    /\ Unexpired(cOp.before.dir[cOp.removed[1].key], cOp.at)
    /\ cDir[cOp.removed[1].key] = NoFile
    /\ Cardinality(Present(cDir)) = CountBefore - 1

\* C40 as stated: no other unexpired entry is removed and the count does
\* not decrease, also at exactly max_entries entries.
C40_ReplaceLeavesOthers ==
    (ReplacedUnexpired /\ CountBefore <= cCfg.max_entries) =>
        /\ OthersKept
        /\ Cardinality(Present(cDir)) >= CountBefore

\* ---------------------------------------------------------------------
\* C28.  vault_healthy() closes every connection it opens, on every path:
\* it returns True after closing when the PRAGMA succeeds, returns False
\* with the connection closed exactly once when the PRAGMA raises or the
\* connect raises, and returns False without opening a connection when
\* vault.db does not exist.
\* ---------------------------------------------------------------------
C28_EveryConnectionClosedOnce ==
    /\ hCloses <= hOpened
    /\ hPc \in {"idle", "done"} => hCloses = hOpened /\ hConn # "open"
    /\ hPc = "done" =>
          /\ hRet \in {"True", "False"}
          /\ (hRet = "True") <=> (hPragma = "ok")
          /\ hPragma # "none" => hConn = "closed"
          /\ hSeen = "absent" => (hRet = "False" /\ hConn = "none")

\* The PRAGMA raised on an open connection, which was then closed, and
\* False came back.
C28_Witness ==
    /\ hPc = "done"
    /\ hPragma = "DatabaseError"
    /\ hRet = "False"
    /\ hConn = "closed"
    /\ hCloses = hOpened
    /\ hOpened >= 1

\* ---------------------------------------------------------------------
\* C29.  The cache lock is never held across network activity: a thread
\* whose fetch is resolving a name, making an HTTP request or sleeping
\* between retries does not hold the lock, the lock is held only inside
\* get and set, and so a thread waiting for the lock waits only for a get
\* or a set of another caller, never for that caller's fetch.
\* ---------------------------------------------------------------------
C29_LockNotHeldAcrossNetwork ==
    /\ \A t \in Threads :
          (bPc[t] = "network" \/ bNet[t] # "none") => bLock # t
    /\ bLock # NoThread => bPc[bLock] \in {"get_in", "set_in"}
    /\ \A t \in Threads :
          (bPc[t] \in {"get_wait", "set_wait"} /\ bLock # NoThread) =>
              bNet[bLock] = "none"

\* One caller sleeps between retries while the other is inside get with
\* the lock.
C29_Witness ==
    /\ bPc["t1"] = "network"
    /\ bNet["t1"] = "sleep"
    /\ bPc["t2"] = "get_in"
    /\ bLock = "t2"

\* The platform a host belongs to, the first match winning: the table of
\* detect_url_type read against the host alone.
host_type(url) ==
    IF HostContains(url, <<"x", "com">>) \/ HostContains(url, <<"twitter", "com">>)
    THEN "twitter"
    ELSE IF HostContains(url, <<"gist", "github", "com">>) THEN "gist"
    ELSE IF HostContains(url, <<"github", "com">>) THEN "github"
    ELSE IF HostContains(url, <<"youtube", "com">>) \/ HostContains(url, <<"youtu", "be">>)
    THEN "youtube"
    ELSE IF HostContains(url, <<"reddit", "com">>) \/ HostContains(url, <<"redd", "it">>)
    THEN "reddit"
    ELSE IF _is_valid_webpage_url(url) THEN "webpage"
    ELSE "unknown"

\* ---------------------------------------------------------------------
\* C23.  detect_url_type classifies a URL by its host: twitter, gist,
\* github, youtube or reddit for a host matching the platform's names,
\* the first match winning in that order; webpage for every other URL
\* with an http(s) scheme and a valid host, whatever its path and query
\* string hold; unknown for anything else.
\* ---------------------------------------------------------------------
C23_ClassifiedByHost ==
    dType # "unset" => dType = host_type(dUrl)

\* Every fetch of the strategy succeeds.
successful_fetches ==
    /\ \A p \in PostIds : wPosts[p].ok
    /\ wFx.kind = "tweet"

\* Post 42 replies to a post by the same author.
reply_to_same_author ==
    /\ wPosts[42].in_reply_to = 41
    /\ handle_lower(wPosts[41].author) = handle_lower(wPosts[42].author)

\* ---------------------------------------------------------------------
\* C26.  Given successful fetches, the Twitter strategy applied to
\* https://x.com/u/status/42, where post 42 replies to a post by the same
\* author, returns a result of type "thread" whose thread_size is at
\* least 2 and equals the number of posts in the returned list.
\* ---------------------------------------------------------------------
C26_SelfReplyGivesThread ==
    (wOut # NoTweet /\ successful_fetches /\ reply_to_same_author) =>
        /\ wOut.success
        /\ wOut.type = "thread"
        /\ wOut.thread_size >= 2
        /\ wOut.thread_size = wOut.tweets


\* C34: whenever the syndication fetch of post 42 succeeds and post 42
\* replies to a post by the same author, the Twitter strategy calls
\* fetch_thread_reconstruction before it returns, note post or not.
\* Violated: a note post whose full text FxTwitter delivers is returned at
\* fetcher.py line 129, before the reply check at line 136.
C34_SelfReplyAttemptsThread ==
    (wOut # NoTweet /\ wPosts[42].ok /\ wPosts[41].ok /\ reply_to_same_author) =>
        wTried >= 1

\* ---------------------------------------------------------------------
\* C27.  Sanitization is idempotent: for every input x and every format
\* (html, markdown, text, auto), sanitize_content(sanitize_content(x)) is
\* sanitize_content(x).
\* ---------------------------------------------------------------------
C27_SanitizeIdempotent ==
    zPc = "twice" => zTwice = zOnce


\* The counts of an input leave its format open: they are equal (both
\* zero included), or there are Markdown patterns and one or two tags.
Ambiguous(h, m) == h = m \/ (0 < h /\ h <= 2 /\ m > 0)

\* C36: sanitize_content in auto mode applies both the HTML pass and the
\* Markdown pass whenever the counts of HTML tags and of Markdown patterns
\* leave the format open, and a single pass only when one format clearly
\* dominates.
C36_AutoAppliesBothWhenAmbiguous ==
    (zPc = "once" /\ zFormat = "auto"
       /\ Ambiguous(html_tag_count(zIn), md_pattern_count(zIn))) =>
        zOnce = sanitize_markdown(sanitize_html(zIn))


\* C25: in every result of a public call scrape_content(u) the url field is
\* the whitespace-stripped URL the caller passed, and resolved_url, when
\* present, differs from url.  Violated: for a shortener that resolved to
\* another URL the strategy's envelope carries the resolved URL as url
\* (base.py line 222) and line 152 sets resolved_url to that same value.
C25_UrlIsOriginalRequest ==
    (sPc = "done" /\ sDepth = 0 /\ sOut.success) =>
        /\ sOut.url = Strip(sUrl)
        /\ (Get(sOut, "resolved_url", NoUrl) # NoUrl => sOut.resolved_url # sOut.url)


\* C21: after a public call scrape_content(u) returned a successful result
\* that cache.set stored, the cache holds an entry under the key of u, so
\* that get(u) finds it.  Violated: for a shortener that resolved to
\* another URL the strategy ran on the resolved URL and base.py line 217
\* stored the entry under the key of that URL.
C21_CachedUnderRequestedUrl ==
    (sPc = "done" /\ sDepth = 0 /\ sOut.success /\ pStored = "stored") =>
        cache_key(sUrl) \in pCache


\* C24: every envelope scrape_content returns has the keys success,
\* content_type and url; a successful one has a data dict with the key
\* text; a failed one has a non-empty error and no data.
C24_EnvelopeShape ==
    sPc = "done" =>
        /\ {"success", "content_type", "url"} \subseteq DOMAIN sOut
        /\ IF sOut.success
           THEN "data" \in DOMAIN sOut /\ "text" \in sOut.data
           ELSE /\ "error" \in DOMAIN sOut
                /\ sOut.error # ""
                /\ "data" \notin DOMAIN sOut

\* A strategy ran, its raw result had no error entry, and the envelope
\* came back with the default reason.
C24_Witness ==
    /\ sPc = "done"
    /\ pStored = "failed"
    /\ ~sOut.success
    /\ sOut.error = "Unknown error"
    /\ sOut.content_type = "webpage"


C32_MarkerIsRerouted ==
    (sPc = "done" /\ sOut.success) =>
        ~Get(Get(sOut, "raw", CachedResult), "redirect", FALSE)


\* The posts of the list are pairwise distinct, all by thread_author, each
\* the post the next one replies to, and the post asked for is the last.
WellFormedThread ==
    /\ \A i, j \in 1..Len(yTweets) : i # j => yTweets[i] # yTweets[j]
    /\ \A i \in 1..Len(yTweets) :
          /\ yPosts[yTweets[i]].ok
          /\ handle_lower(yPosts[yTweets[i]].author) = handle_lower(yAuthor)
    /\ \A i \in 1..(Len(yTweets) - 1) : yPosts[yTweets[i + 1]].in_reply_to = yTweets[i]
    /\ yTweets # <<>> => yTweets[Len(yTweets)] = 1

\* The walk went on up to the first post that failed to load or is by
\* another author, to a post already visited, to the root, or to the cap.
StoppedAtFirstBreak ==
    IF yTweets = <<>> THEN WalkBreaks(yPosts[1], yAuthor)
    ELSE LET parent == yPosts[yTweets[1]].in_reply_to
         IN \/ Len(yTweets) = max_depth
            \/ parent = NoPost
            \/ parent \in ySeen
            \/ WalkBreaks(yPosts[parent], yAuthor)

RECURSIVE BoundedComment(_, _)
BoundedComment(comment, depth) ==
    /\ comment.kind = "t1"
    /\ comment.depth = depth
    /\ depth <= reddit_max_depth
    /\ Len(comment.replies) <= 3
    /\ \A i \in 1..Len(comment.replies) : BoundedComment(comment.replies[i], depth + 1)

\* C35: for every comment listing extract_comments comes to an end with a list no
\* longer than the listing, and what it returns is
\* a bounded tree: at most max_comments top-level comments, no comment
\* deeper than reddit_max_depth, at most 3 replies under any comment, and
\* only items of kind t1.
C35_BoundedCommentTree ==
    /\ ePc = "call" => Len(extract_comments(eIn)) \in 0..Len(eIn)
    /\ ePc = "done" =>
            /\ Len(eOut) <= max_comments
            /\ \A i \in 1..Len(eOut) : BoundedComment(eOut[i], 0)

\* A listing of more than max_comments comments, each with more than 3
\* replies nested deeper than reddit_max_depth, was cut on all three sides.
C35_Witness ==
    /\ ePc = "done"
    /\ Len(eIn) > max_comments
    /\ Len(eOut) = max_comments
    /\ Len(eIn[1].children) > 3
    /\ Len(eOut[1].replies) = 3
    /\ eIn[1].children[1].children # <<>>
    /\ eIn[1].children[1].children[1].children # <<>>
    /\ eOut[1].replies[1].replies[1].replies = <<>>
    /\ eOut[1].replies[1].replies[1].depth = reddit_max_depth


\* C38: with two ContentCache instances on one cache directory that call
\* set concurrently for the same URL, the entry file under its final name
\* always holds exactly one complete serialized entry, one writer's or the
\* other's (or the one that was there before), never a partial or
\* interleaved write, and neither set call raises.
C38_EntryFileAlwaysComplete ==
    /\ qNames.entry # NoInode =>
          qData[qNames.entry] \in {OldEntry} \cup { EntryJson(w, qLen[w]) : w \in Writers }
    /\ \A w \in Writers : qRet[w] \in {"none", "True", "False"}


\* C39: every host safe_fetch or resolve_redirects sends a request to, the
\* initial URL's and every one reached by following a redirect, has passed
\* SSRF validation before the request to it is sent; no request goes to a
\* private or blocked host as an intermediate or final redirect hop.
C39_EveryHopValidatedFirst ==
    \A i \in 1..Len(jSent) :
        /\ jSent[i].vetted
        /\ validate_url_ssrf(jSent[i].url, HopDns(jSent[i].url.host), TRUE).ok

====
